---------------------------- MODULE Spec2Model ----------------------------
(***************************************************************************)
(* Model of the Infinite Backrooms recreation tools:                       *)
(*   - ConversationParser (conversation_recreator.py)                      *)
(*   - ConversationRecreator.recreate_chronological_conversations          *)
(*   - BackroomsPipeline.step3_recreate_conversations (pipeline.py)        *)
(*                                                                         *)
(* Text is modelled lexically.  A record's content is a sequence of        *)
(* tokens: the delimiter characters the regular expressions of the source  *)
(* look at ("<", ">", "#", ",", ".", " ", "\n", each digit) are tokens of  *)
(* their own, every other token is a word, a run of characters holding     *)
(* none of these delimiters.  The literals of the regular expressions      *)
(* ("conversation_", "_scenario_", "txt", "actors:", "SYSTEM", "CONTEXT",  *)
(* "/s") are words.  Each regular expression of the source is an operator  *)
(* over token sequences that follows the expression piece by piece.        *)
(* File names are sequences of characters, because sorted() compares them  *)
(* character by character.                                                 *)
(***************************************************************************)
EXTENDS Integers, Sequences, FiniteSets, TLC

(***************************************************************************)
(* Python str helpers, over token sequences.                               *)
(***************************************************************************)
Digits == <<"0", "1", "2", "3", "4", "5", "6", "7", "8", "9">>

IsDigit(t) == \E d \in 1..10 : Digits[d] = t

DigitVal(t) == (CHOOSE d \in 1..10 : Digits[d] = t) - 1

IsWS(t) == t \in {" ", "\n"}

MinOf(S) == CHOOSE x \in S : \A y \in S : x <= y

MaxOf(S) == CHOOSE x \in S : \A y \in S : y <= x

\* str.strip(): drop the leading and the trailing whitespace.
strip(s) ==
    LET keep == {i \in 1..Len(s) : ~IsWS(s[i])}
    IN  IF keep = {} THEN <<>> ELSE SubSeq(s, MinOf(keep), MaxOf(keep))

\* str.split(','): the pieces between the commas; no comma gives one piece.
RECURSIVE split(_)
split(s) ==
    LET commas == {i \in 1..Len(s) : s[i] = ","}
    IN  IF commas = {} THEN <<s>>
        ELSE LET k == MinOf(commas)
             IN  <<SubSeq(s, 1, k - 1)>> \o split(SubSeq(s, k + 1, Len(s)))

\* int(): a run of digits read in base ten.
RECURSIVE int(_)
int(ds) ==
    IF Len(ds) = 0 THEN 0
    ELSE 10 * int(SubSeq(ds, 1, Len(ds) - 1)) + DigitVal(ds[Len(ds)])

AllDigits(s) == Len(s) > 0 /\ \A i \in 1..Len(s) : IsDigit(s[i])

\* float(): accepts <digits> and <digits>.<digit>; the value is kept in
\* tenths.  Any other text raises ValueError (ok = FALSE).
float(s) ==
    LET dots == {i \in 1..Len(s) : s[i] = "."}
    IN  IF AllDigits(s) THEN [ok |-> TRUE, val |-> 10 * int(s)]
        ELSE IF /\ Cardinality(dots) = 1
                /\ Len(s) >= 3
                /\ s[Len(s) - 1] = "."
                /\ AllDigits(SubSeq(s, 1, Len(s) - 2))
                /\ IsDigit(s[Len(s)])
             THEN [ok |-> TRUE,
                   val |-> 10 * int(SubSeq(s, 1, Len(s) - 2)) + DigitVal(s[Len(s)])]
             ELSE [ok |-> FALSE, val |-> 0]

\* The JSON texts of the model; each is one word.
JsonMsgText == "[{\"role\":\"user\",\"content\":\"hi\"}]"
JsonEmptyText == "[]"
JsonDictText == "{\"a\":1}"
JsonBadText == "[{bad"

\* json.loads(): the decoded value, or JSONDecodeError (ok = FALSE).
json_loads(s) ==
    IF s = <<JsonMsgText>>
    THEN [ok |-> TRUE, kind |-> "list", items |-> <<[role |-> <<"user">>, content |-> <<"hi">>]>>]
    ELSE IF s = <<JsonEmptyText>>
    THEN [ok |-> TRUE, kind |-> "list", items |-> <<>>]
    ELSE IF s = <<JsonDictText>>
    THEN [ok |-> TRUE, kind |-> "dict", items |-> <<[key |-> "a", value |-> 1]>>]
    ELSE [ok |-> FALSE, kind |-> "error", items |-> <<>>]

\* A decoded JSON value as the structure keeps it.
JsonValue(kind, items) == [kind |-> kind, items |-> items]

EmptyList == JsonValue("list", <<>>)


(***************************************************************************)
(* The regular expressions of ConversationParser, over token sequences.    *)
(* Positions run from 1 to Len(c) + 1 (the end of the input).              *)
(***************************************************************************)
FirstAt(c, from, t) ==
    LET S == {i \in from..Len(c) : c[i] = t}
    IN  IF S = {} THEN 0 ELSE MinOf(S)

NoMatch == [ok |-> FALSE]

\* conversation_(\d+)_scenario_(.+?)\.txt tried at position p: the digits run
\* as far as digits go, the slug is the shortest run of one or more tokens
\* other than a line break that "." "txt" follows.
HeaderMatchAt(c, p) ==
    IF ~(p <= Len(c) /\ c[p] = "conversation_") THEN NoMatch
    ELSE
    LET nond == {i \in (p + 1)..Len(c) : ~IsDigit(c[i])}
        de   == IF nond = {} THEN Len(c) + 1 ELSE MinOf(nond)
        ss   == de + 1
        nl   == FirstAt(c, ss, "\n")
        lim  == IF nl = 0 THEN Len(c) ELSE nl - 1
        ends == {e \in ss..lim : e + 2 <= Len(c) /\ c[e + 1] = "." /\ c[e + 2] = "txt"}
    IN  IF de = p + 1 \/ de > Len(c) \/ c[de] # "_scenario_" \/ ends = {}
        THEN NoMatch
        ELSE [ok |-> TRUE,
              g1 |-> SubSeq(c, p + 1, de - 1),
              g2 |-> SubSeq(c, ss, MinOf(ends))]

\* re.search: the leftmost position where the expression matches.
SearchHeader(c) ==
    LET S == {p \in 1..Len(c) : HeaderMatchAt(c, p).ok}
    IN  IF S = {} THEN NoMatch ELSE HeaderMatchAt(c, MinOf(S))

\* '<key> (.+)' tried at position p: the key word, one blank, then the rest of
\* the line, which must hold at least one token.
LineMatchAt(c, key, p) ==
    IF ~(p + 2 <= Len(c) /\ c[p] = key /\ c[p + 1] = " " /\ c[p + 2] # "\n")
    THEN NoMatch
    ELSE LET nl == FirstAt(c, p + 2, "\n")
         IN  [ok |-> TRUE,
              g1 |-> SubSeq(c, p + 2, IF nl = 0 THEN Len(c) ELSE nl - 1)]

SearchLine(c, key) ==
    LET S == {p \in 1..Len(c) : LineMatchAt(c, key, p).ok}
    IN  IF S = {} THEN NoMatch ELSE LineMatchAt(c, key, MinOf(S))

\* [part.strip() for part in group.split(',')]
SplitStrip(g) == LET parts == split(g) IN [i \in 1..Len(parts) |-> strip(parts[i])]

\* '<[^>]+>' starts at position t: "<", one or more tokens other than ">", ">".
IsTagStart(c, t) ==
    /\ t <= Len(c)
    /\ c[t] = "<"
    /\ FirstAt(c, t + 1, ">") >= t + 2

\* '$' without re.MULTILINE: the end of the input, or just before a line break
\* that ends the input.
AtDollar(c, t) == t = Len(c) + 1 \/ (t = Len(c) /\ c[t] = "\n")

\* '\s*(.*?)(?=<[^>]+>|$)' from position s: the whitespace is skipped, the body
\* is the shortest run up to a tag or the end.  Returns <<body, end>>.
BodyToNextTag(c, s) ==
    LET nws == {i \in s..Len(c) : ~IsWS(c[i])}
        b   == IF nws = {} THEN Len(c) + 1 ELSE MinOf(nws)
        e   == MinOf({t \in b..(Len(c) + 1) : IsTagStart(c, t) \/ AtDollar(c, t)})
    IN  [body |-> SubSeq(c, b, e - 1), end |-> e]

\* '<([^>]+)#KIND>' tried at position p: the label runs to the "#" "KIND" that
\* stands right before the first ">".  Returns the position of that ">".
KindTagAt(c, p, kind) ==
    IF ~(p <= Len(c) /\ c[p] = "<") THEN 0
    ELSE LET g == FirstAt(c, p + 1, ">")
         IN  IF g >= p + 4 /\ c[g - 2] = "#" /\ c[g - 1] = kind THEN g ELSE 0

\* '<([^>]+)#SYSTEM>\s*(.*?)\s*</s>' (DOTALL) tried at position p.
SystemMatchAt(c, p) ==
    LET g == KindTagAt(c, p, "SYSTEM")
        T == {t \in (g + 1)..(Len(c) - 2) :
                 c[t] = "<" /\ c[t + 1] = "/s" /\ c[t + 2] = ">"}
    IN  IF g = 0 \/ T = {} THEN NoMatch
        ELSE [ok |-> TRUE,
              g1 |-> SubSeq(c, p + 1, g - 3),
              g2 |-> strip(SubSeq(c, g + 1, MinOf(T) - 1)),
              end |-> MinOf(T) + 3]

\* '<([^>]+)#CONTEXT>\s*(.*?)(?=<[^>]+>|$)' (DOTALL) tried at position p.
ContextMatchAt(c, p) ==
    LET g == KindTagAt(c, p, "CONTEXT")
    IN  IF g = 0 THEN NoMatch
        ELSE LET r == BodyToNextTag(c, g + 1)
             IN  [ok |-> TRUE, g1 |-> SubSeq(c, p + 1, g - 3),
                  g2 |-> r.body, end |-> r.end]

\* '<([^>]+)>\s*(.*?)(?=<[^>]+>|$)' (DOTALL) tried at position p.
TurnMatchAt(c, p) ==
    IF ~IsTagStart(c, p) THEN NoMatch
    ELSE LET g == FirstAt(c, p + 1, ">")
             r == BodyToNextTag(c, g + 1)
         IN  [ok |-> TRUE, g1 |-> SubSeq(c, p + 1, g - 1),
              g2 |-> r.body, end |-> r.end]

MatchAt(c, p, which) ==
    IF which = "SYSTEM" THEN SystemMatchAt(c, p)
    ELSE IF which = "CONTEXT" THEN ContextMatchAt(c, p)
    ELSE TurnMatchAt(c, p)

\* re.findall: the matches from left to right, each search starting where the
\* last match ended.  Each entry is <<group 1, group 2>>.
RECURSIVE findall(_, _, _)
RECURSIVE FindFrom(_, _, _, _)
findall(c, p, which) ==
    IF p > Len(c) THEN <<>> ELSE FindFrom(c, p, which, MatchAt(c, p, which))

\* The scan of findall at position p, m being what the expression matches
\* there.
FindFrom(c, p, which, m) ==
    IF m.ok THEN <<[g1 |-> m.g1, g2 |-> m.g2]>> \o findall(c, m.end, which)
    ELSE findall(c, p + 1, which)

\* '#SYSTEM' in actor, '#CONTEXT' in actor
HasMarker(label, kind) ==
    \E i \in 1..(Len(label) - 1) : label[i] = "#" /\ label[i + 1] = kind

(***************************************************************************)
(* ConversationParser.                                                     *)
(***************************************************************************)
\* The failure signal of the parser.
None == [tag |-> "None"]

\* An exception on its way to the caller.
Raise(e) == [tag |-> "Raise", exc |-> e]

\* A value a call returns, where the call may raise instead.
Returned(v) == [tag |-> "Returned", value |-> v]

ConversationStructure(ts, sc, ac, mo, te, sp, cx, tu) ==
    [tag |-> "Structure", timestamp |-> ts, scenario |-> sc, actors |-> ac,
     models |-> mo, temperature |-> te, system_prompts |-> sp, context |-> cx,
     conversation_turns |-> tu]

\* ContextEntry without its except clause: the failed decode is kept.
ContextEntry_NoExcept(body) ==
    LET d == json_loads(strip(body))
    IN  JsonValue(d.kind, d.items)

\* for match in context_matches: json.loads(match[1].strip()), [] on a
\* JSONDecodeError.
ContextEntry(body) ==
    LET d == json_loads(strip(body))
    IN  IF d.ok THEN JsonValue(d.kind, d.items) ELSE EmptyList

\* The turns: every '<label>' match whose label holds neither marker.
TurnsOf(content) ==
    LET ms  == findall(content, 1, "TURN")
        sel == SelectSeq(ms, LAMBDA m : ~HasMarker(m.g1, "SYSTEM")
                                        /\ ~HasMarker(m.g1, "CONTEXT"))
    IN  [k \in 1..Len(sel) |-> [actor |-> sel[k].g1, content |-> strip(sel[k].g2)]]

\* [a.strip() for a in match.group(1).split(',')] if there is a match, else [].
MatchedList(m) == IF m.ok THEN SplitStrip(m.g1) ELSE <<>>

\* What parse_conversation_content makes of the matches of its expressions:
\* None without the header, ValueError from float(), else the structure.
StructureOf(timestamp_match, actors, models, temp_values, system_matches, context_matches, turns) ==
    IF ~timestamp_match.ok THEN None
    ELSE IF \E k \in 1..Len(temp_values) : ~float(temp_values[k]).ok
    THEN Raise("ValueError")
    ELSE ConversationStructure(
            int(timestamp_match.g1),
            timestamp_match.g2,
            actors,
            models,
            [k \in 1..Len(temp_values) |-> float(temp_values[k]).val],
            [k \in 1..Len(system_matches) |-> strip(system_matches[k].g2)],
            [k \in 1..Len(context_matches) |-> ContextEntry(context_matches[k].g2)],
            turns)

\* The body of parse_conversation_content inside its try block.
ParseBody(content) ==
    StructureOf(SearchHeader(content),
                MatchedList(SearchLine(content, "actors:")),
                MatchedList(SearchLine(content, "models:")),
                MatchedList(SearchLine(content, "temp:")),
                findall(content, 1, "SYSTEM"),
                findall(content, 1, "CONTEXT"),
                TurnsOf(content))

\* except Exception as e: return None
ExceptToNone(r) == IF r.tag = "Raise" THEN None ELSE r

\* parse_conversation_content without its except clause.
parse_conversation_content_NoExcept(content) == ParseBody(content)

\* try: ... except Exception: return None
parse_conversation_content(content) == ExceptToNone(ParseBody(content))

\* A file of the disk: its text, or a file open() cannot read.
File(content) == [tag |-> "File", readable |-> TRUE, content |-> content]

Unreadable == [tag |-> "File", readable |-> FALSE, content |-> <<>>]

\* The body of parse_conversation_file inside its try block: open() and
\* read(), then parse_conversation_content.
ParseFileBody(file) ==
    IF file.readable THEN parse_conversation_content(file.content) ELSE Raise("OSError")

\* try: ... except Exception: return None
parse_conversation_file(file) == ExceptToNone(ParseFileBody(file))

(***************************************************************************)
(* Raw records.  A record is described by its parts (header comment,       *)
(* metadata lines, blocks) and rendered to the text the parser reads.      *)
(***************************************************************************)
\* The longest record body of the model, in blocks.
MaxBlocks == 4

NoHeader == [present |-> FALSE, digits |-> <<>>, value |-> 0, slug |-> <<>>]

HeaderOptions ==
    { NoHeader,
      [present |-> TRUE, digits |-> <<"3", "0", "0">>, value |-> 300,
       slug |-> <<"vanilla_backrooms">>],
      [present |-> TRUE, digits |-> <<"0", "7">>, value |-> 7,
       slug |-> <<"a", ".", "b">>] }

Claude1 == <<"claude-", "1">>
Claude2 == <<"claude-", "2">>

\* The actors: line: absent, or the names with the blanks written around them.
ActorsOptions ==
    { [present |-> FALSE, names |-> <<>>, text |-> <<>>],
      [present |-> TRUE, names |-> <<Claude1, Claude2>>,
       text |-> <<"actors:", " ">> \o Claude1 \o <<",", " ">> \o Claude2 \o <<"\n">>],
      [present |-> TRUE, names |-> <<Claude2>>,
       text |-> <<"actors:", " ", " ">> \o Claude2 \o <<" ", "\n">>] }

\* The temp: line: absent, numeric, or holding a token that is no number.
TempOptions ==
    { [kind |-> "absent", text |-> <<>>],
      [kind |-> "numeric",
       text |-> <<"temp:", " ", "1", ".", "0", ",", " ", "2", "\n">>],
      [kind |-> "bad",
       text |-> <<"temp:", " ", "hot", ",", " ", "1", ".", "0", "\n">>] }

NumericTempText == <<"temp:", " ", "1", ".", "0", ",", " ", "2", "\n">>

\* The blocks a record body is made of.
BlockKinds ==
    { [kind |-> "SYSTEM",  label |-> Claude1, body |-> <<"sys">>, closed |-> TRUE],
      [kind |-> "CONTEXT", label |-> Claude1, body |-> <<JsonMsgText>>, closed |-> FALSE],
      [kind |-> "CONTEXT", label |-> Claude2, body |-> <<JsonBadText>>, closed |-> FALSE],
      [kind |-> "TURN",    label |-> Claude1, body |-> <<"A">>, closed |-> FALSE],
      [kind |-> "TURN",    label |-> Claude2, body |-> <<"B", " ", "b">>, closed |-> FALSE] }

RenderBlock(b) ==
    <<"<">> \o b.label
    \o (IF b.kind = "TURN" THEN <<>> ELSE <<"#", b.kind>>)
    \o <<">", "\n">> \o b.body \o <<"\n">>
    \o (IF b.closed THEN <<"<", "/s", ">", "\n">> ELSE <<>>)
    \o <<"\n">>

RECURSIVE RenderBlocks(_)
RenderBlocks(bs) ==
    IF bs = <<>> THEN <<>> ELSE RenderBlock(Head(bs)) \o RenderBlocks(Tail(bs))

RenderHeader(h) ==
    IF h.present
    THEN <<"#", " ", "conversation_">> \o h.digits \o <<"_scenario_">> \o h.slug
         \o <<".", "txt", "\n">>
    ELSE <<>>

\* The text of a record.
Render(r) ==
    RenderHeader(r.header) \o r.actors.text \o r.temp.text \o <<"\n">>
    \o RenderBlocks(r.blocks)

\* The dialect of the raw records: the SYSTEM blocks, then the CONTEXT blocks,
\* then the turns.
Rank(kind) == IF kind = "SYSTEM" THEN 1 ELSE IF kind = "CONTEXT" THEN 2 ELSE 3

InDialectOrder(bs) ==
    \A i \in 1..Len(bs) : \A j \in i..Len(bs) : Rank(bs[i].kind) <= Rank(bs[j].kind)

BlockSeqs ==
    {bs \in UNION {[1..n -> BlockKinds] : n \in 0..MaxBlocks} : InDialectOrder(bs)}

Records ==
    [header : HeaderOptions, actors : ActorsOptions, temp : TempOptions,
     blocks : BlockSeqs]

EmptyRecord ==
    [header |-> NoHeader,
     actors |-> [present |-> FALSE, names |-> <<>>, text |-> <<>>],
     temp |-> [kind |-> "absent", text |-> <<>>],
     blocks |-> <<>>]

(***************************************************************************)
(* File names, as sequences of characters.                                 *)
(***************************************************************************)
ConvPrefix == <<"c", "o", "n", "v", "e", "r", "s", "a", "t", "i", "o", "n", "_">>
ScenarioInfix == <<"_", "s", "c", "e", "n", "a", "r", "i", "o", "_">>
TxtSuffix == <<".", "t", "x", "t">>

startswith(s, pre) == Len(s) >= Len(pre) /\ SubSeq(s, 1, Len(pre)) = pre

endswith(s, suf) ==
    Len(s) >= Len(suf) /\ SubSeq(s, Len(s) - Len(suf) + 1, Len(s)) = suf

\* The run of digits of s that starts at position p (empty when s[p] is none).
DigitRun(s, p) ==
    LET nond == {i \in p..Len(s) : ~IsDigit(s[i])}
    IN  SubSeq(s, p, (IF nond = {} THEN Len(s) + 1 ELSE MinOf(nond)) - 1)

\* re.match(r'conversation_(\d+)_scenario_', base)
NameMatch(base) ==
    LET ds == DigitRun(base, Len(ConvPrefix) + 1)
        q  == Len(ConvPrefix) + Len(ds)
    IN  IF /\ startswith(base, ConvPrefix)
           /\ ds # <<>>
           /\ SubSeq(base, q + 1, q + Len(ScenarioInfix)) = ScenarioInfix
        THEN [ok |-> TRUE, g1 |-> ds]
        ELSE NoMatch

GoodName == ConvPrefix \o <<"3", "0", "0">> \o ScenarioInfix \o <<"x">> \o TxtSuffix
OtherName == <<"n", "o", "t", "e", "s">> \o TxtSuffix

(***************************************************************************)
(* The files of the input directory.  Each name of the model has one       *)
(* content.                                                                *)
(***************************************************************************)
Name300y == ConvPrefix \o <<"3", "0", "0">> \o ScenarioInfix \o <<"y">> \o TxtSuffix
Name1000x == ConvPrefix \o <<"1", "0", "0", "0">> \o ScenarioInfix \o <<"x">> \o TxtSuffix
Name20notes == ConvPrefix \o <<"2", "0", "_", "n", "o", "t", "e", "s">> \o TxtSuffix
NameNoDigits == ConvPrefix \o <<"x">> \o TxtSuffix

DiskNames == {GoodName, Name300y, Name1000x, Name20notes, NameNoDigits, OtherName}

TwoActors ==
    [present |-> TRUE, names |-> <<Claude1, Claude2>>,
     text |-> <<"actors:", " ">> \o Claude1 \o <<",", " ">> \o Claude2 \o <<"\n">>]

SystemBlock == [kind |-> "SYSTEM", label |-> Claude1, body |-> <<"sys">>, closed |-> TRUE]
ContextBlock ==
    [kind |-> "CONTEXT", label |-> Claude1, body |-> <<JsonMsgText>>, closed |-> FALSE]
TurnA == [kind |-> "TURN", label |-> Claude1, body |-> <<"A">>, closed |-> FALSE]
TurnB == [kind |-> "TURN", label |-> Claude2, body |-> <<"B", " ", "b">>, closed |-> FALSE]

\* A well-formed record: header, two actors, numeric temperatures, the blocks.
GoodRecord(digits, value, slug, blocks) ==
    [header |-> [present |-> TRUE, digits |-> digits, value |-> value, slug |-> slug],
     actors |-> TwoActors,
     temp |-> [kind |-> "numeric", text |-> NumericTempText],
     blocks |-> blocks]

\* Name300y holds no header line; Name20notes, whose name lacks _scenario_,
\* holds the header of GoodName with blocks of its own.
RecordOf(name) ==
    IF name = GoodName
    THEN GoodRecord(<<"3", "0", "0">>, 300, <<"x">>, <<SystemBlock, ContextBlock, TurnA, TurnB>>)
    ELSE IF name = Name300y
    THEN [GoodRecord(<<>>, 0, <<>>, <<TurnA>>) EXCEPT !.header = NoHeader]
    ELSE IF name = Name1000x
    THEN GoodRecord(<<"1", "0", "0", "0">>, 1000, <<"x">>, <<TurnB>>)
    ELSE IF name = Name20notes
    THEN GoodRecord(<<"3", "0", "0">>, 300, <<"x">>, <<ContextBlock, TurnB>>)
    ELSE GoodRecord(<<"5">>, 5, <<"x">>, <<TurnA>>)

OriginalFile(name) == File(Render(RecordOf(name)))

(***************************************************************************)
(* Paths and orders.                                                       *)
(***************************************************************************)
ConversationsDir == <<"i", "n">>

\* os.path.join(conversations_dir, filename)
join(dir, name) == dir \o <<"/">> \o name

\* os.path.basename(filepath)
basename(path) ==
    LET S == {i \in 1..Len(path) : path[i] = "/"}
    IN  IF S = {} THEN path ELSE SubSeq(path, MaxOf(S) + 1, Len(path))

\* re.search(r'conversation_(\d+)', x): the leftmost "conversation_" that a
\* digit follows, and the digits after it.
SearchConvDigits(x) ==
    LET n == Len(ConvPrefix)
        S == {p \in 1..Len(x) : /\ p + n <= Len(x)
                                /\ SubSeq(x, p, p + n - 1) = ConvPrefix
                                /\ IsDigit(x[p + n])}
    IN  IF S = {} THEN NoMatch
        ELSE [ok |-> TRUE, g1 |-> DigitRun(x, MinOf(S) + n)]

\* The sort key of the chronological driver.
TimestampKey(x) == int(SearchConvDigits(x).g1)

\* Inserts x behind the entries of the sorted list whose key is not larger.
InsertByKey(sorted, x) ==
    LET k == Cardinality({i \in 1..Len(sorted) : TimestampKey(sorted[i]) <= TimestampKey(x)})
    IN  SubSeq(sorted, 1, k) \o <<x>> \o SubSeq(sorted, k + 1, Len(sorted))

\* SortByTimestamp left out: the files stay in listing order.
ListingOrder(fs) == fs

\* list.sort(key=...): ascending by key, entries of equal key in their old
\* order.
RECURSIVE SortByTimestamp(_)
SortByTimestamp(fs) ==
    IF fs = <<>> THEN <<>>
    ELSE InsertByKey(SortByTimestamp(SubSeq(fs, 1, Len(fs) - 1)), fs[Len(fs)])

\* The characters of the file names, in code point order.
Alphabet ==
    <<".", "/", "0", "1", "2", "3", "4", "5", "6", "7", "8", "9", "_",
      "a", "b", "c", "d", "e", "f", "g", "h", "i", "j", "k", "l", "m",
      "n", "o", "p", "q", "r", "s", "t", "u", "v", "w", "x", "y", "z">>

ord(ch) == CHOOSE i \in 1..Len(Alphabet) : Alphabet[i] = ch

\* a < b for two strings: at the first place they differ, or a a proper
\* prefix of b.
StrLess(a, b) ==
    LET m == IF Len(a) < Len(b) THEN Len(a) ELSE Len(b)
        D == {i \in 1..m : a[i] # b[i]}
    IN  IF D = {} THEN Len(a) < Len(b)
        ELSE ord(a[MinOf(D)]) < ord(b[MinOf(D)])

\* sorted(paths): Path objects of one directory compare as their names do.
RECURSIVE SortedPaths(_)
SortedPaths(S) ==
    IF S = {} THEN <<>>
    ELSE LET x == CHOOSE a \in S : \A b \in S : a = b \/ StrLess(a, b)
         IN  <<x>> \o SortedPaths(S \ {x})

\* if max_conversations: conversation_files = conversation_files[:max_conversations]
\* (max_conversations is <<>> for None, <<n>> for the integer n).
Capped(fs, mc) ==
    IF mc # <<>> /\ mc[1] # 0
    THEN SubSeq(fs, 1, IF mc[1] < Len(fs) THEN mc[1] ELSE Len(fs))
    ELSE fs

\* The orders os.listdir may return the names of a directory in.
Listings(S) ==
    {l \in [1..Cardinality(S) -> S] : \A i, j \in 1..Cardinality(S) : i # j => l[i] # l[j]}

(***************************************************************************)
(* Templates and the generation engine.                                    *)
(***************************************************************************)
\* str(): the decimal digits of a natural number.
RECURSIVE str(_)
str(n) == IF n < 10 THEN <<Digits[n + 1]>> ELSE str(n \div 10) \o <<Digits[(n % 10) + 1]>>

\* f"recreated_{structure.scenario}_{structure.timestamp}"
TemplateName(structure) ==
    <<"recreated_">> \o structure.scenario \o <<"_">> \o str(structure.timestamp)

\* create_template_from_structure with its loop run over the system prompts
\* instead of the actors.
ProjectPerPrompt(structure) ==
    [k \in 1..Len(structure.system_prompts) |->
        [system_prompt |-> structure.system_prompts[k],
         context |-> IF k <= Len(structure.context)
                     THEN structure.context[k] ELSE EmptyList,
         cli |-> <<FALSE>>]]

\* create_template_from_structure: one dict per declared actor.
create_template_from_structure(structure) ==
    [k \in 1..Len(structure.actors) |->
        [system_prompt |-> IF k <= Len(structure.system_prompts)
                           THEN structure.system_prompts[k] ELSE <<>>,
         context |-> IF k <= Len(structure.context)
                     THEN structure.context[k] ELSE EmptyList,
         cli |-> <<FALSE>>]]

\* The TemplateConfig objects step 3 builds from a structure.
TemplateConfigs(structure) ==
    [k \in 1..Len(structure.actors) |->
        [system_prompt |-> IF k <= Len(structure.system_prompts)
                           THEN structure.system_prompts[k] ELSE <<>>,
         context |-> IF k <= Len(structure.context)
                     THEN structure.context[k] ELSE EmptyList,
         cli |-> FALSE]]

(***************************************************************************)
(* Template files.  A file is a sequence of lines, a line is one JSON       *)
(* object; the model keeps the keys of the object and writes its strings   *)
(* as JSON writes them, character by character.                            *)
(***************************************************************************)
\* The characters JSON writes behind a backslash, and what they stand for.
Escapes == {<<"\n", "n">>, <<"\"", "\"">>, <<"\\", "\\">>}

\* EncodeChar without the case of the line break.
EncodeChar_RawNewline(ch) ==
    IF ch \in {"\"", "\\"} THEN <<"\\", ch>> ELSE <<ch>>

\* json.dumps of one character of a string.
EncodeChar(ch) ==
    IF \E e \in Escapes : e[1] = ch
    THEN <<"\\", (CHOOSE e \in Escapes : e[1] = ch)[2]>>
    ELSE <<ch>>

\* json.dumps of a string, without the quotes around it.
RECURSIVE EncodeString(_)
EncodeString(str_) ==
    IF str_ = <<>> THEN <<>> ELSE EncodeChar(Head(str_)) \o EncodeString(Tail(str_))

\* The text between two quotes is a JSON string: no bare quote or line break,
\* and every backslash starts an escape.
RECURSIVE IsJsonString(_)
IsJsonString(t) ==
    IF t = <<>> THEN TRUE
    ELSE IF Head(t) = "\\"
    THEN /\ Len(t) >= 2
         /\ \E e \in Escapes : e[2] = t[2]
         /\ IsJsonString(SubSeq(t, 3, Len(t)))
    ELSE Head(t) \notin {"\"", "\n"} /\ IsJsonString(Tail(t))

\* json.loads of a JSON string.
RECURSIVE DecodeString(_)
DecodeString(t) ==
    IF t = <<>> THEN <<>>
    ELSE IF Head(t) = "\\"
    THEN <<(CHOOSE e \in Escapes : e[2] = t[2])[1]>> \o DecodeString(SubSeq(t, 3, Len(t)))
    ELSE <<Head(t)>> \o DecodeString(Tail(t))

\* json.dumps of a context: the strings of its messages are written as JSON
\* strings.
EncodeContext(cx) ==
    IF cx.kind = "list"
    THEN JsonValue("list", [k \in 1..Len(cx.items) |->
                               [role |-> EncodeString(cx.items[k].role),
                                content |-> EncodeString(cx.items[k].content)]])
    ELSE cx

\* json.loads of a context.
DecodeContext(cx) ==
    IF cx.kind = "list"
    THEN JsonValue("list", [k \in 1..Len(cx.items) |->
                               [role |-> DecodeString(cx.items[k].role),
                                content |-> DecodeString(cx.items[k].content)]])
    ELSE cx

\* The line of a template file decodes: json.loads(line) does not raise.
IsJsonLine(line) ==
    /\ IsJsonString(line.system_prompt)
    /\ line.context.kind = "list" =>
          \A k \in 1..Len(line.context.items) :
             /\ IsJsonString(line.context.items[k].role)
             /\ IsJsonString(line.context.items[k].content)

\* The lines TemplateManager.create_template writes: json.dumps of an object
\* that holds "cli" only when it is set (<<>> stands for the key left out).
create_template(configs) ==
    [k \in 1..Len(configs) |->
        [system_prompt |-> EncodeString(configs[k].system_prompt),
         context |-> EncodeContext(configs[k].context),
         cli |-> IF configs[k].cli THEN <<TRUE>> ELSE <<>>]]

\* The lines ConversationRecreator.save_template writes: json.dumps of each
\* config.
save_template(template) ==
    [k \in 1..Len(template) |->
        [system_prompt |-> EncodeString(template[k].system_prompt),
         context |-> EncodeContext(template[k].context),
         cli |-> template[k].cli]]

\* The TemplateConfig load_template makes of a decoded line:
\* data.get("system_prompt", ""), data.get("context", []),
\* data.get("cli", False).
LoadedConfig(line) ==
    [system_prompt |-> DecodeString(line.system_prompt),
     context |-> DecodeContext(line.context),
     cli |-> IF line.cli = <<>> THEN FALSE ELSE line.cli[1]]

\* TemplateManager.load_template on the template directory dir: the configs
\* of the lines of the file, FileNotFoundError without the file,
\* JSONDecodeError for a line that does not decode.
load_template(dir, name) ==
    IF ~\E t \in dir : t.name = name THEN Raise("FileNotFoundError")
    ELSE IF \E k \in 1..Len((CHOOSE t \in dir : t.name = name).lines) :
               ~IsJsonLine((CHOOSE t \in dir : t.name = name).lines[k])
    THEN Raise("JSONDecodeError")
    ELSE Returned([k \in 1..Len((CHOOSE t \in dir : t.name = name).lines) |->
                      LoadedConfig((CHOOSE t \in dir : t.name = name).lines[k])])

\* The keys of personality_prompts in apply_personality_modifier.
RecreatorPersonalities ==
    {"absurdist", "sarcastic", "eldritch", "retrofuturistic", "philosophical", "meme"}

personality_prompts(p) ==
    IF p = "absurdist"
    THEN <<"Respond with absurdist humor and surreal logic. Embrace the nonsensical while maintaining the core conversation flow.">>
    ELSE IF p = "sarcastic"
    THEN <<"Respond with wit and sarcasm. Be clever and slightly cynical while engaging with the topics.">>
    ELSE IF p = "eldritch"
    THEN <<"Respond with cosmic horror undertones. Reference unknowable truths and reality-bending concepts.">>
    ELSE IF p = "retrofuturistic"
    THEN <<"Respond with 1980s cyberpunk aesthetics and retro-futuristic concepts. Reference neon, chrome, and digital frontiers.">>
    ELSE IF p = "philosophical"
    THEN <<"Respond with deep philosophical inquiry. Question the nature of reality, consciousness, and existence.">>
    ELSE <<"Respond with internet meme culture references. Use contemporary online humor and references.">>

\* ConversationRecreator.apply_personality_modifier
apply_personality_modifier(template, p) ==
    IF p \in RecreatorPersonalities
    THEN [k \in 1..Len(template) |->
            [template[k] EXCEPT !.system_prompt =
                IF template[k].system_prompt # <<>>
                THEN template[k].system_prompt
                     \o <<"\n", "\n", "Personality modifier: ">> \o personality_prompts(p)
                ELSE personality_prompts(p)]]
    ELSE template

\* A template file: its name and its lines.
TemplateFile(name, lines) == [name |-> name, lines |-> lines]

\* open(template_path, 'w') and one line per config: the file of that name is
\* replaced.
WriteTemplate(dir, name, lines) ==
    {t \in dir : t.name # name} \union {TemplateFile(name, lines)}

DefaultMaxTurns == 50

DefaultModels == <<"opus", "opus">>

\* What subprocess.run may do: exit with a status and an output, or raise.
EngineOutcomes ==
    { [kind |-> "exit", returncode |-> 0, stdout |-> "transcript"],
      [kind |-> "exit", returncode |-> 0, stdout |-> ""],
      [kind |-> "exit", returncode |-> 1, stdout |-> "partial"],
      [kind |-> "raise", returncode |-> 0, stdout |-> ""] }

\* RunEngine with the test of the exit status left out: stdout is returned
\* whatever the status.
RunEngine_AnyStatus(o) ==
    IF o.kind = "raise" THEN Raise("OSError") ELSE Returned(o.stdout)

\* The try block of recreate_conversation: subprocess.run raises, or stdout
\* is returned for exit status 0 and "" for any other.
RunEngine(o) ==
    IF o.kind = "raise" THEN Raise("OSError")
    ELSE Returned(IF o.returncode = 0 THEN o.stdout ELSE "")

\* RecreatedContent without the except clause of recreate_conversation.
RecreatedContent_NoExcept(o) == RunEngine(o)

\* except Exception as e: return ""
ExceptToEmpty(r) == IF r.tag = "Raise" THEN Returned("") ELSE r

\* What recreate_conversation returns for an engine outcome.
RecreatedContent(o) == ExceptToEmpty(RunEngine(o))

\* A run of the engine: the record it was started for, the command and what
\* the engine did.
EngineRun(path, call, o) == [record |-> path, call |-> call, outcome |-> o]

\* cmd of recreate_conversation, with the template file as it stands when the
\* engine starts.
EngineCall(models, name, dir) ==
    [lm |-> models, template |-> name, max_turns |-> DefaultMaxTurns,
     file |-> {t \in dir : t.name = name}]

\* f"recreated_{os.path.basename(filepath)}"
OutputName(filepath) == <<"r", "e", "c", "r", "e", "a", "t", "e", "d", "_">> \o basename(filepath)

(***************************************************************************)
(* State.                                                                  *)
(***************************************************************************)
MaxFiles == 3

VARIABLES
    pc,                 \* where the program stands
    rec,                \* the raw record the file was rendered from
    filepath,           \* the file handed to the parser
    file,               \* that file on disk
    called,             \* the entry point that ran
    result,             \* what the parser returned
    listing,            \* the names of the input directory, as listed
    personality,        \* the personality argument ("" for None)
    max_conversations,  \* the cap argument (<<>> for None)
    start_date,         \* the date bounds of the pipeline, as timestamps
    end_date,           \*   (<<>> for None)
    custom_template,    \* the custom template of the pipeline (<<>> for None)
    conversation_files, \* the files the loop runs over
    idx,                \* the position of the loop
    visited,            \* the files the loop has handed to the parser
    templates,          \* the template files on disk
    output,             \* the files of the output directory
    calls,              \* the runs of the generation engine
    configs,            \* the template handed to a template operation
    returned,           \* what the template operation returned
    html_content,       \* the HTML companions a record is rebuilt with
    meta                \* what extract_metadata returned for each of them

parserVars == <<rec, file, called>>

batchArgs == <<listing, personality, max_conversations, start_date, end_date, custom_template>>

batchVars == <<conversation_files, idx, visited, templates, output, calls>>

tmplVars == <<configs, returned>>

rebuildVars == <<html_content, meta>>

vars == <<pc, filepath, result, parserVars, batchArgs, batchVars, tmplVars, rebuildVars>>

(***************************************************************************)
(* The parser run on one file.                                             *)
(***************************************************************************)
\* No template operation has been called.
NoTemplateCall == configs = <<>> /\ returned = None

\* No record is being rebuilt.
NoRebuild == html_content = <<>> /\ meta = <<>>

NoBatch ==
    /\ NoTemplateCall
    /\ NoRebuild
    /\ listing = <<>> /\ personality = "" /\ max_conversations = <<>>
    /\ start_date = <<>> /\ end_date = <<>> /\ custom_template = <<>>
    /\ conversation_files = <<>> /\ idx = 0 /\ visited = <<>>
    /\ templates = {} /\ output = {} /\ calls = <<>>

Init ==
    /\ pc = "start"
    /\ rec \in Records
    /\ filepath \in {GoodName, OtherName}
    /\ \/ file = File(Render(rec))
       \/ rec = EmptyRecord /\ file = Unreadable
    /\ called = "none"
    /\ result = None
    /\ NoBatch

\* structure = parser.parse_conversation_file(filepath)
ParseFile ==
    /\ pc = "start"
    /\ result' = parse_conversation_file(file)
    /\ called' = "parse_conversation_file"
    /\ pc' = "done"
    /\ UNCHANGED <<rec, filepath, file, batchArgs, rebuildVars, tmplVars, batchVars>>

\* structure = parser.parse_conversation_content(content)
ParseContent ==
    /\ pc = "start"
    /\ file.readable
    /\ result' = parse_conversation_content(file.content)
    /\ called' = "parse_conversation_content"
    /\ pc' = "done"
    /\ UNCHANGED <<rec, filepath, file, batchArgs, rebuildVars, tmplVars, batchVars>>

\* template = create_template_from_structure(structure) and
\* save_template(template, template_name), for the structure parsed.
ProjectAndSave ==
    /\ pc = "done"
    /\ result.tag = "Structure"
    /\ templates' = WriteTemplate(templates, TemplateName(result),
                                  save_template(create_template_from_structure(result)))
    /\ called' = "save_template"
    /\ pc' = "projected"
    /\ UNCHANGED <<rec, filepath, file, result, batchArgs, rebuildVars, tmplVars, conversation_files, idx,
                   visited, output, calls>>

\* The TemplateConfig objects of step 3 and TemplateManager.create_template,
\* for the structure parsed.
ProjectAndCreate ==
    /\ pc = "done"
    /\ result.tag = "Structure"
    /\ templates' = WriteTemplate(templates, TemplateName(result),
                                  create_template(TemplateConfigs(result)))
    /\ called' = "create_template"
    /\ pc' = "projected"
    /\ UNCHANGED <<rec, filepath, file, result, batchArgs, rebuildVars, tmplVars, conversation_files, idx,
                   visited, output, calls>>

Next == ParseFile \/ ParseContent \/ ProjectAndSave \/ ProjectAndCreate

Spec == Init /\ [][Next]_vars

(***************************************************************************)
(* ConversationRecreator.recreate_chronological_conversations              *)
(***************************************************************************)
\* The directories of at most MaxFiles files, in every order of listing.
Directories ==
    UNION {Listings(S) : S \in {T \in SUBSET DiskNames : Cardinality(T) <= MaxFiles}}

CapOptions == {<<>>, <<0>>, <<1>>, <<2>>}

\* filename.startswith('conversation_') and filename.endswith('.txt')
IsConversationFile(name) == startswith(name, ConvPrefix) /\ endswith(name, TxtSuffix)

\* The paths the listing loop collects, in listing order.
RECURSIVE CollectFiles(_)
CollectFiles(l) ==
    IF l = <<>> THEN <<>>
    ELSE (IF IsConversationFile(Head(l)) THEN <<join(ConversationsDir, Head(l))>> ELSE <<>>)
         \o CollectFiles(Tail(l))

\* The sort key raises AttributeError for a path the pattern is not found in.
SortRaises(fs) == \E i \in 1..Len(fs) : ~SearchConvDigits(fs[i]).ok

BatchIdle ==
    /\ pc = "start"
    /\ NoTemplateCall
    /\ NoRebuild
    /\ rec = EmptyRecord /\ file = Unreadable /\ called = "none"
    /\ filepath = <<>> /\ result = None
    /\ start_date = <<>> /\ end_date = <<>> /\ custom_template = <<>>
    /\ conversation_files = <<>> /\ idx = 0 /\ visited = <<>>
    /\ templates = {} /\ calls = <<>>

\* The output directory before the run: empty, or holding a transcript of
\* GoodName from an earlier run.
StaleOutput == [name |-> OutputName(join(ConversationsDir, GoodName)), content |-> "stale"]

InitDriver ==
    /\ BatchIdle
    /\ output \in {{}, {StaleOutput}}
    /\ listing \in Directories
    /\ personality \in {"", "absurdist", "cyberpunk"}
    /\ max_conversations \in CapOptions

\* The listing, the sort and the cap, up to the head of the loop.
ListSortCap ==
    /\ pc = "start"
    /\ LET fs == CollectFiles(listing)
       IN  IF SortRaises(fs)
           THEN /\ pc' = "crashed"
                /\ UNCHANGED <<conversation_files, idx>>
           ELSE /\ conversation_files' = Capped(SortByTimestamp(fs), max_conversations)
                /\ idx' = 1
                /\ pc' = "loop"
    /\ UNCHANGED <<filepath, result, parserVars, batchArgs, rebuildVars, tmplVars, visited, templates, output, calls>>

\* The file the loop stands at, as it is on disk.
CurrentFile == OriginalFile(basename(conversation_files[idx]))

\* An iteration whose file does not parse: continue.
SkipUnparsed ==
    /\ pc = "loop" /\ idx <= Len(conversation_files)
    /\ parse_conversation_file(CurrentFile) = None
    /\ filepath' = conversation_files[idx]
    /\ result' = None
    /\ visited' = Append(visited, conversation_files[idx])
    /\ idx' = idx + 1
    /\ UNCHANGED <<pc, parserVars, batchArgs, rebuildVars, tmplVars, conversation_files, templates, output, calls>>

\* The template recreate_conversation saves for a structure.
RecreatorTemplate(structure, p) ==
    IF p # ""
    THEN apply_personality_modifier(create_template_from_structure(structure), p)
    ELSE create_template_from_structure(structure)

\* open(output_path, 'w'); f.write(recreated_content)
WriteOutput(dir, name, content) ==
    {f \in dir : f.name # name} \union {[name |-> name, content |-> content]}

\* recreate_conversation with the engine run ahead of save_template: the
\* engine finds the template directory as the records before left it.
recreate_conversation_EngineFirst(structure, name, o) ==
    /\ templates' = WriteTemplate(templates, name,
                                  save_template(RecreatorTemplate(structure, personality)))
    /\ calls' = Append(calls, EngineRun(conversation_files[idx],
                                        EngineCall(DefaultModels, name, templates), o))

\* recreate_conversation with the personality carried into the command: the
\* template name handed to the engine is suffixed with the personality.
recreate_conversation_PersonalityInCommand(structure, name, o) ==
    /\ templates' = WriteTemplate(templates, name,
                                  save_template(RecreatorTemplate(structure, personality)))
    /\ calls' = Append(calls, EngineRun(conversation_files[idx],
                                        EngineCall(DefaultModels,
                                                   IF personality # ""
                                                   THEN name \o <<"_", personality>>
                                                   ELSE name,
                                                   templates'), o))

\* recreate_conversation up to the end of the engine run: the template is
\* saved under its name, then the engine is run on that name.
recreate_conversation(structure, name, o) ==
    /\ templates' = WriteTemplate(templates, name,
                                  save_template(RecreatorTemplate(structure, personality)))
    /\ calls' = Append(calls, EngineRun(conversation_files[idx],
                                        EngineCall(DefaultModels, name, templates'), o))

\* if recreated_content: the output file is written.  An exception that
\* recreate_conversation lets through ends the driver.
WriteIfAny(content) ==
    IF content.tag = "Raise"
    THEN /\ pc' = "crashed"
         /\ UNCHANGED <<idx, output>>
    ELSE /\ output' = IF content.value # ""
                      THEN WriteOutput(output, OutputName(conversation_files[idx]),
                                       content.value)
                      ELSE output
         /\ idx' = idx + 1
         /\ pc' = pc

\* The body of the loop for a structure that is not None: the recreation,
\* and the write of what the engine made it return, if that is not empty.
RecreateWith(structure) ==
    /\ structure # None
    /\ result' = structure
    /\ \E o \in EngineOutcomes :
        /\ recreate_conversation(structure, TemplateName(structure), o)
        /\ WriteIfAny(RecreatedContent(o))

\* An iteration whose file parses: recreate_conversation (template saved,
\* engine run) and the write of its output, if there is any.
RecreateOne ==
    /\ pc = "loop" /\ idx <= Len(conversation_files)
    /\ RecreateWith(parse_conversation_file(CurrentFile))
    /\ filepath' = conversation_files[idx]
    /\ visited' = Append(visited, conversation_files[idx])
    /\ UNCHANGED <<parserVars, batchArgs, rebuildVars, tmplVars, conversation_files>>

\* The loop has run over every file.
LoopEnds ==
    /\ pc = "loop" /\ idx > Len(conversation_files)
    /\ pc' = "done"
    /\ UNCHANGED <<filepath, result, parserVars, batchArgs, rebuildVars, tmplVars, batchVars>>

NextDriver == ListSortCap \/ SkipUnparsed \/ RecreateOne \/ LoopEnds

SpecDriver == InitDriver /\ [][NextDriver]_vars

(***************************************************************************)
(* pipeline.py: step3_recreate_conversations                               *)
(***************************************************************************)
\* The keys of the profiles PersonalityManager builds.
ManagerPersonalities ==
    {"absurdist", "sarcastic", "eldritch", "retrofuturistic", "philosophical",
     "meme", "cyberpunk", "academic"}

\* PersonalityManager.apply_personality_to_template on the TemplateConfig
\* objects of step 3: an unknown personality returns the template as it is; a
\* known one calls config.copy() on the first entry, which TemplateConfig does
\* not have.
apply_personality_to_template(template, p) ==
    IF p \notin ManagerPersonalities \/ template = <<>> THEN Returned(template)
    ELSE Raise("AttributeError")

\* The system_prompt_modifier of each profile of _initialize_personalities, as
\* written: the lines of the literal, with the line breaks and the indentation
\* (one " " for a run of blanks) between them.
system_prompt_modifier(p) ==
    IF p = "absurdist"
    THEN <<"\n", " ",
           "Respond with absurdist humor and surreal logic. Embrace the nonsensical while maintaining ",
           "\n", " ",
           "the core conversation flow. Use unexpected connections, paradoxes, and dreamlike reasoning. ",
           "\n", " ",
           "Reference impossible scenarios as if they were mundane. Maintain a sense of playful confusion ",
           "\n", " ",
           "about reality while engaging meaningfully with topics.",
           "\n", " ">>
    ELSE IF p = "sarcastic"
    THEN <<"\n", " ",
           "Respond with wit and sarcasm. Be clever and slightly cynical while engaging with topics. ",
           "\n", " ",
           "Use irony, dry humor, and subtle mockery. Question assumptions with sardonic observations. ",
           "\n", " ",
           "Maintain intelligence while expressing skepticism about grand claims or obvious statements.",
           "\n", " ">>
    ELSE IF p = "eldritch"
    THEN <<"\n", " ",
           "Respond with cosmic horror undertones. Reference unknowable truths, ancient entities, ",
           "\n", " ",
           "and reality-bending concepts. Suggest that normal reality is a thin veneer over ",
           "\n", " ",
           "incomprehensible cosmic forces. Use language that implies vast, alien intelligences ",
           "\n", " ",
           "and dimensions beyond human understanding. Maintain an atmosphere of creeping dread ",
           "\n", " ",
           "and existential uncertainty.",
           "\n", " ">>
    ELSE IF p = "retrofuturistic"
    THEN <<"\n", " ",
           "Respond with 1980s cyberpunk aesthetics and retro-futuristic concepts. Reference neon, ",
           "\n", " ",
           "chrome, digital frontiers, and corporate dystopias. Use terminology from early computer ",
           "\n", " ",
           "culture, hacking, and virtual reality. Imagine the future as seen from the 1980s - ",
           "\n", " ",
           "with flying cars, neural interfaces, and megacorporations. Maintain a sense of ",
           "\n", " ",
           "technological optimism mixed with corporate paranoia.",
           "\n", " ">>
    ELSE IF p = "philosophical"
    THEN <<"\n", " ",
           "Respond with deep philosophical inquiry. Question the nature of reality, consciousness, ",
           "\n", " ",
           "and existence. Reference philosophical concepts, thought experiments, and fundamental ",
           "\n", " ",
           "questions about being. Approach topics through the lens of epistemology, metaphysics, ",
           "\n", " ",
           "and ethics. Maintain intellectual rigor while exploring profound questions about ",
           "\n", " ",
           "the human condition and the nature of knowledge.",
           "\n", " ">>
    ELSE IF p = "meme"
    THEN <<"\n", " ",
           "Respond with internet meme culture references and contemporary online humor. Use ",
           "\n", " ",
           "meme formats, internet slang, and references to viral content. Approach topics ",
           "\n", " ",
           "through the lens of online culture, social media trends, and digital native humor. ",
           "\n", " ",
           "Reference popular memes, online communities, and internet phenomena while maintaining ",
           "\n", " ",
           "engagement with the core topics.",
           "\n", " ">>
    ELSE IF p = "cyberpunk"
    THEN <<"\n", " ",
           "Respond with cyberpunk aesthetics and hacker culture references. Emphasize themes of ",
           "\n", " ",
           "corporate control, digital rebellion, and technological augmentation. Use hacker ",
           "\n", " ",
           "terminology, references to the net, and anti-establishment attitudes. Approach topics ",
           "\n", " ",
           "through the lens of information warfare, digital rights, and technological liberation.",
           "\n", " ">>
    ELSE <<"\n", " ",
           "Respond with academic rigor and scholarly perspective. Reference research, studies, ",
           "\n", " ",
           "and academic frameworks. Use formal language, cite theoretical foundations, and ",
           "\n", " ",
           "approach topics with methodological precision. Maintain intellectual objectivity ",
           "\n", " ",
           "while exploring complex ideas through established academic disciplines.",
           "\n", " ">>

\* The name, the description and the temperature_modifier (in hundredths) of
\* each profile.
ProfileData ==
    {[type |-> "absurdist", name |-> "Absurdist",
      description |-> "Embraces surreal logic and nonsensical humor",
      temperature_modifier |-> 20],
      [type |-> "sarcastic", name |-> "Sarcastic",
      description |-> "Witty, cynical, and cleverly sarcastic",
      temperature_modifier |-> -10],
      [type |-> "eldritch", name |-> "Eldritch Horror",
      description |-> "Cosmic horror with unknowable truths and reality-bending concepts",
      temperature_modifier |-> 15],
      [type |-> "retrofuturistic", name |-> "Retrofuturistic",
      description |-> "1980s cyberpunk aesthetics with retro-futuristic concepts",
      temperature_modifier |-> 10],
      [type |-> "philosophical", name |-> "Philosophical",
      description |-> "Deep philosophical inquiry about reality, consciousness, and existence",
      temperature_modifier |-> -5],
      [type |-> "meme", name |-> "Meme Culture",
      description |-> "Internet meme culture with contemporary online humor",
      temperature_modifier |-> 25],
      [type |-> "cyberpunk", name |-> "Cyberpunk",
      description |-> "High-tech, low-life cyberpunk aesthetic with hacker culture",
      temperature_modifier |-> 15],
      [type |-> "academic", name |-> "Academic",
      description |-> "Scholarly, research-focused with academic rigor",
      temperature_modifier |-> -15]}

Profile(p) == CHOOSE d \in ProfileData : d.type = p

\* The body of the loop with a fresh dict in place of the copy: cli is not
\* carried over and falls back to False.
ModifiedConfig_FreshDict(config, p) ==
    [system_prompt |-> IF config.system_prompt # <<>>
                       THEN config.system_prompt \o <<"\n", "\n">> \o strip(system_prompt_modifier(p))
                       ELSE strip(system_prompt_modifier(p)),
     context |-> config.context,
     cli |-> FALSE,
     personality |-> [type |-> p, name |-> Profile(p).name,
                      description |-> Profile(p).description,
                      temperature_modifier |-> Profile(p).temperature_modifier]]

\* The body of the loop of apply_personality_to_template on a dict: a copy of
\* the config with the stripped modifier appended after a blank line (or put
\* in place of an empty prompt) and the 'personality' key added.
ModifiedConfig(config, p) ==
    [system_prompt |-> IF config.system_prompt # <<>>
                       THEN config.system_prompt \o <<"\n", "\n">> \o strip(system_prompt_modifier(p))
                       ELSE strip(system_prompt_modifier(p)),
     context |-> config.context,
     cli |-> config.cli,
     personality |-> [type |-> p, name |-> Profile(p).name,
                      description |-> Profile(p).description,
                      temperature_modifier |-> Profile(p).temperature_modifier]]

\* apply_personality_to_template without the early return for a personality
\* the catalog does not hold: the lookup of the profile then fails.
apply_personality_to_dicts_NoGuard(template, p) ==
    IF p \notin ManagerPersonalities /\ template # <<>> THEN Raise("AttributeError")
    ELSE Returned([k \in 1..Len(template) |-> ModifiedConfig(template[k], p)])

\* PersonalityManager.apply_personality_to_template on a list of dicts, as its
\* signature and the test call it.
apply_personality_to_dicts(template, p) ==
    IF p \notin ManagerPersonalities THEN Returned(template)
    ELSE Returned([k \in 1..Len(template) |-> ModifiedConfig(template[k], p)])

\* The parameters recreate_conversation takes and the keywords step 3 calls it
\* with; a keyword that is no parameter raises TypeError before the body runs.
RecreatorParams == {"structure", "models", "max_turns", "personality_modifier"}

Step3Keywords == {"models", "personality_modifier", "template_name"}

CallRaisesTypeError == ~(Step3Keywords \subseteq RecreatorParams)

\* The names original_dir.glob("conversation_*.txt") yields.
GlobNames(l) == {l[i] : i \in {j \in 1..Len(l) : IsConversationFile(l[j])}}

\* datetime.fromtimestamp(timestamp) against the bounds; a date is the
\* timestamp it stands for.
InDateRange(timestamp) ==
    /\ start_date = <<>> \/ ~(timestamp < start_date[1])
    /\ end_date = <<>> \/ ~(timestamp > end_date[1])

\* The date filter: the files whose name holds a timestamp within the bounds.
DateFiltered(fs) ==
    IF start_date # <<>> \/ end_date # <<>>
    THEN SelectSeq(fs, LAMBDA x : /\ SearchConvDigits(basename(x)).ok
                                  /\ InDateRange(int(SearchConvDigits(basename(x)).g1)))
    ELSE fs

\* The arguments step 3 is run with.
Step3Args ==
    [personality : {"", "absurdist", "surreal"},
     max_conversations : {<<>>, <<2>>},
     dates : {<<<<>>, <<>>>>, <<<<100>>, <<>>>>, <<<<100>>, <<500>>>>},
     custom_template : {<<>>, <<"custom">>}]

InitPipeline ==
    /\ pc = "start"
    /\ NoTemplateCall
    /\ NoRebuild
    /\ rec = EmptyRecord /\ file = Unreadable /\ called = "none"
    /\ filepath = <<>> /\ result = None
    /\ conversation_files = <<>> /\ idx = 0 /\ visited = <<>>
    /\ templates = {} /\ output = {} /\ calls = <<>>
    /\ listing \in Directories
    /\ \E a \in Step3Args :
        /\ personality = a.personality
        /\ max_conversations = a.max_conversations
        /\ start_date = a.dates[1]
        /\ end_date = a.dates[2]
        /\ custom_template = a.custom_template

\* The glob, the sort, the date filter and the cap, up to the head of the loop.
Step3Start ==
    /\ pc = "start"
    /\ conversation_files' =
         Capped(DateFiltered(SortedPaths({join(ConversationsDir, n) : n \in GlobNames(listing)})),
                max_conversations)
    /\ idx' = 1
    /\ pc' = "loop"
    /\ UNCHANGED <<filepath, result, parserVars, batchArgs, rebuildVars, tmplVars, visited, templates, output, calls>>

\* An iteration whose file does not parse: continue.
Step3Skip ==
    /\ pc = "loop" /\ idx <= Len(conversation_files)
    /\ parse_conversation_file(CurrentFile) = None
    /\ filepath' = conversation_files[idx]
    /\ result' = None
    /\ visited' = Append(visited, conversation_files[idx])
    /\ idx' = idx + 1
    /\ UNCHANGED <<pc, parserVars, batchArgs, rebuildVars, tmplVars, conversation_files, templates, output, calls>>

\* The template step 3 hands to create_template, or the exception on the way.
Step3Template(structure) ==
    IF personality # ""
    THEN apply_personality_to_template(TemplateConfigs(structure), personality)
    ELSE Returned(TemplateConfigs(structure))

\* The body of the loop for a structure that is not None and the template
\* made for it.  Without a custom template the template is built outside the
\* try block: its exception ends step 3.  The call of recreate_conversation
\* raises TypeError inside the try block: continue.
Step3With(structure, template) ==
    /\ structure # None
    /\ result' = structure
    /\ IF custom_template = <<>> /\ template.tag = "Raise"
       THEN /\ pc' = "crashed"
            /\ UNCHANGED <<idx, templates>>
       ELSE /\ CallRaisesTypeError
            /\ templates' = IF custom_template = <<>>
                            THEN WriteTemplate(templates, TemplateName(structure),
                                               create_template(template.value))
                            ELSE templates
            /\ idx' = idx + 1
            /\ pc' = pc

\* An iteration whose file parses.
Step3Recreate ==
    /\ pc = "loop" /\ idx <= Len(conversation_files)
    /\ Step3With(parse_conversation_file(CurrentFile),
                 Step3Template(parse_conversation_file(CurrentFile)))
    /\ filepath' = conversation_files[idx]
    /\ visited' = Append(visited, conversation_files[idx])
    /\ UNCHANGED <<parserVars, batchArgs, rebuildVars, tmplVars, conversation_files, output, calls>>

\* The loop has run over every file.
Step3Done ==
    /\ pc = "loop" /\ idx > Len(conversation_files)
    /\ pc' = "done"
    /\ UNCHANGED <<filepath, result, parserVars, batchArgs, rebuildVars, tmplVars, batchVars>>

NextPipeline == Step3Start \/ Step3Skip \/ Step3Recreate \/ Step3Done

SpecPipeline == InitPipeline /\ [][NextPipeline]_vars

(***************************************************************************)
(* The template manager: create_template and load_template on a template   *)
(* directory.                                                              *)
(***************************************************************************)
MaxConfigs == 2

\* System prompts: empty, plain, and with the characters JSON escapes.
PromptTexts == {<<>>, <<"a">>, <<"a", "\n", "b">>, <<"\"", "\\", "n">>}

ContextValues ==
    {EmptyList, JsonValue("list", <<[role |-> <<"user">>, content |-> <<"h", "\"">>]>>)}

\* The dataclass TemplateConfig; __post_init__ makes a None context [].
TemplateConfig == [system_prompt : PromptTexts, context : ContextValues, cli : BOOLEAN]

ConfigLists == UNION {[1..n -> TemplateConfig] : n \in 0..MaxConfigs}

\* The template name the calls are made with, and another one.
ManagedTemplate == <<"m">>

OtherTemplate == <<"o">>

OldConfig == [system_prompt |-> <<"o", "l", "d">>, context |-> EmptyList, cli |-> TRUE]

\* The template directory before the calls: empty, holding a longer file of
\* the same name, or holding a file of another name.
PriorDirectories ==
    {{},
     {TemplateFile(ManagedTemplate, create_template([k \in 1..(MaxConfigs + 1) |-> OldConfig]))},
     {TemplateFile(OtherTemplate, create_template(<<OldConfig>>))}}

\* The personality identifiers handed in: the keys of the catalog, a member of
\* PersonalityType without a profile, and a string that is neither.
PersonalityIds == ManagerPersonalities \union {"surreal", "bogus"}

InitTemplates ==
    /\ pc = "start"
    /\ rec = EmptyRecord /\ file = Unreadable /\ called = "none"
    /\ filepath = <<>> /\ result = None
    /\ listing = <<>> /\ max_conversations = <<>>
    /\ start_date = <<>> /\ end_date = <<>> /\ custom_template = <<>>
    /\ conversation_files = <<>> /\ idx = 0 /\ visited = <<>>
    /\ output = {} /\ calls = <<>>
    /\ templates \in PriorDirectories
    /\ personality \in PersonalityIds
    /\ configs \in ConfigLists
    /\ returned = None
    /\ NoRebuild

\* manager.create_template(name, configs): open(path, 'w') replaces the file.
CreateTemplate ==
    /\ pc = "start"
    /\ templates' = WriteTemplate(templates, ManagedTemplate, create_template(configs))
    /\ called' = "create_template"
    /\ pc' = "created"
    /\ UNCHANGED <<rec, filepath, file, result, batchArgs, rebuildVars, configs, returned,
                   conversation_files, idx, visited, output, calls>>

\* manager.load_template(name), after create_template or without it.
LoadTemplate ==
    /\ pc \in {"start", "created"}
    /\ returned' = load_template(templates, ManagedTemplate)
    /\ pc' = "loaded"
    /\ UNCHANGED <<filepath, result, parserVars, batchArgs, rebuildVars, batchVars, configs>>

\* manager.apply_personality_to_template(template, personality_type): the
\* configs are copied, the template handed in stays as it was.
ApplyManager ==
    /\ pc = "start"
    /\ returned' = apply_personality_to_dicts(configs, personality)
    /\ called' = "apply_personality_to_template"
    /\ pc' = "applied"
    /\ UNCHANGED <<rec, filepath, file, result, batchArgs, rebuildVars, batchVars, configs>>

\* recreator.apply_personality_modifier(template, personality): the configs
\* are changed in place and the same list is returned.
ApplyRecreator ==
    /\ pc = "start"
    /\ returned' = Returned(apply_personality_modifier(configs, personality))
    /\ configs' = apply_personality_modifier(configs, personality)
    /\ called' = "apply_personality_modifier"
    /\ pc' = "applied"
    /\ UNCHANGED <<rec, filepath, file, result, batchArgs, rebuildVars, batchVars>>

NextTemplates == CreateTemplate \/ LoadTemplate \/ ApplyManager \/ ApplyRecreator

SpecTemplates == InitTemplates /\ [][NextTemplates]_vars

(***************************************************************************)
(* The metadata rebuild: extract_blocks and extract_metadata, over token   *)
(* sequences.                                                              *)
(***************************************************************************)
\* str.lower() of a token: the tokens of the model written with capitals.
lower(t) ==
    IF t = "SYSTEM" THEN "system"
    ELSE IF t = "CONTEXT" THEN "context"
    ELSE IF t = "Claude" THEN "claude"
    ELSE t

LowerSeq(x) == [i \in 1..Len(x) |-> lower(x[i])]

\* The first position from p on that holds ">" or "#" (0 when there is none).
LabelEnd(c, p) ==
    LET S == {i \in p..Len(c) : c[i] \in {">", "#"}}
    IN  IF S = {} THEN 0 ELSE MinOf(S)

\* The first position from p on that holds no whitespace (the end when there
\* is none).
SkipWS(c, p) ==
    LET S == {i \in p..Len(c) : ~IsWS(c[i])}
    IN  IF S = {} THEN Len(c) + 1 ELSE MinOf(S)

\* '<([^>#]+)#TAG>\s*' (IGNORECASE) tried at position p, h being the end of
\* the label.
BlockTagWith(c, p, tagtype, h) ==
    IF /\ p <= Len(c) /\ c[p] = "<"
       /\ h >= p + 2 /\ h + 2 <= Len(c)
       /\ c[h] = "#" /\ lower(c[h + 1]) = lower(tagtype) /\ c[h + 2] = ">"
    THEN [ok |-> TRUE, start |-> p, g1 |-> SubSeq(c, p + 1, h - 1),
          end |-> SkipWS(c, h + 3)]
    ELSE NoMatch

BlockTagAt(c, p, tagtype) == BlockTagWith(c, p, tagtype, LabelEnd(c, p + 1))

\* pattern.finditer(content): the tags of the kind from left to right, each
\* search starting where the last match ended.
RECURSIVE finditer(_, _, _)
RECURSIVE IterFrom(_, _, _, _)
finditer(c, p, tagtype) ==
    IF p > Len(c) THEN <<>> ELSE IterFrom(c, p, tagtype, BlockTagAt(c, p, tagtype))

IterFrom(c, p, tagtype, m) ==
    IF m.ok THEN <<m>> \o finditer(c, m.end, tagtype)
    ELSE finditer(c, p + 1, tagtype)

\* The loop of extract_blocks over the matches: the block of a match runs to
\* the start of the next match in the list, or to the end of the content.
BlocksOfMatches(c, matches) ==
    [i \in 1..Len(matches) |->
        [actor |-> strip(matches[i].g1),
         block |-> strip(SubSeq(c, matches[i].end,
                                (IF i + 1 <= Len(matches)
                                 THEN matches[i + 1].start ELSE Len(c) + 1) - 1))]]

extract_blocks(content, tagtype) == BlocksOfMatches(content, finditer(content, 1, tagtype))

\* 'key:\s*(.+)' tried at position p: the key word, whitespace, then one or
\* more tokens other than a line break.  The whitespace is taken as long as
\* the rest still matches.
MetaLineAt(c, key, p) ==
    IF ~(p <= Len(c) /\ c[p] = key) THEN NoMatch
    ELSE LET w == SkipWS(c, p + 1)
             Q == {q \in (p + 1)..w : q <= Len(c) /\ c[q] # "\n"}
         IN  IF Q = {} THEN NoMatch
             ELSE LET nl == FirstAt(c, MaxOf(Q), "\n")
                  IN  [ok |-> TRUE,
                       g1 |-> SubSeq(c, MaxOf(Q), IF nl = 0 THEN Len(c) ELSE nl - 1)]

SearchMetaLine(c, key) ==
    LET S == {p \in 1..Len(c) : MetaLineAt(c, key, p).ok}
    IN  IF S = {} THEN NoMatch ELSE MetaLineAt(c, key, MinOf(S))

\* [x.strip() for x in match.group(1).split(',')], [] without a match.
ListOfLine(m) == IF m.ok THEN SplitStrip(m.g1) ELSE <<>>

\* [float(t.strip()) for t in ...]: the values in tenths; ValueError for a
\* piece that is no number.
FloatsOfLine(m) ==
    IF \E i \in 1..Len(ListOfLine(m)) : ~float(ListOfLine(m)[i]).ok
    THEN Raise("ValueError")
    ELSE Returned([i \in 1..Len(ListOfLine(m)) |-> float(ListOfLine(m)[i]).val])

\* x in y for strings: x stands in y as one piece.
IsSubstr(x, y) ==
    \E k \in 0..(Len(y) - Len(x)) : SubSeq(y, k + 1, k + Len(x)) = x

\* a.lower() in actor.lower() or actor.lower() in a.lower()
LabelMatches(a, actor) ==
    \/ IsSubstr(LowerSeq(a), LowerSeq(actor))
    \/ IsSubstr(LowerSeq(actor), LowerSeq(a))

\* The inner loops without their break: the last matching block is kept.
FirstMatching_LastWins(blocks, actor) ==
    LET S == {k \in 1..Len(blocks) : LabelMatches(blocks[k].actor, actor)}
    IN  IF S = {} THEN 0 ELSE MaxOf(S)

\* The index of the first block whose label matches the actor (0 for none).
FirstMatching(blocks, actor) ==
    LET S == {k \in 1..Len(blocks) : LabelMatches(blocks[k].actor, actor)}
    IN  IF S = {} THEN 0 ELSE MinOf(S)

\* system_prompts: '' for an actor without a block, else the stripped block.
SystemPromptsOf(actors, sys_blocks) ==
    [i \in 1..Len(actors) |->
        IF FirstMatching(sys_blocks, actors[i]) = 0 THEN <<>>
        ELSE strip(sys_blocks[FirstMatching(sys_blocks, actors[i])].block)]

\* The context slot without the isinstance test: whatever json.loads returns.
ContextOfBlock_AnyJson(block) ==
    IF json_loads(block).ok
    THEN JsonValue(json_loads(block).kind, json_loads(block).items)
    ELSE EmptyList

\* The context slot a block gives: what json.loads returns when that is a
\* list, [] when it is no list or json.loads raises.
ContextOfBlock(block) ==
    IF json_loads(block).ok /\ json_loads(block).kind = "list"
    THEN JsonValue("list", json_loads(block).items)
    ELSE EmptyList

ContextsOf(actors, ctx_blocks) ==
    [i \in 1..Len(actors) |->
        IF FirstMatching(ctx_blocks, actors[i]) = 0 THEN EmptyList
        ELSE ContextOfBlock(ctx_blocks[FirstMatching(ctx_blocks, actors[i])].block)]

\* '<([^>#]+)>\s*(.*?)(?=<[^>]+>|$)' (DOTALL) tried at position p, h being
\* the end of the label.
MetaTurnWith(c, p, h) ==
    IF p <= Len(c) /\ c[p] = "<" /\ h >= p + 2 /\ c[h] = ">"
    THEN [ok |-> TRUE, g1 |-> SubSeq(c, p + 1, h - 1),
          g2 |-> BodyToNextTag(c, h + 1).body, end |-> BodyToNextTag(c, h + 1).end]
    ELSE NoMatch

MetaTurnAt(c, p) == MetaTurnWith(c, p, LabelEnd(c, p + 1))

\* The loop over turn_pattern.finditer(content): a match whose label holds
\* '#SYSTEM' or '#CONTEXT' or whose stripped text is empty adds nothing.
RECURSIVE TurnsFrom(_, _)
RECURSIVE TurnsWith(_, _, _)
TurnsFrom(c, p) ==
    IF p > Len(c) THEN <<>> ELSE TurnsWith(c, p, MetaTurnAt(c, p))

TurnsWith(c, p, m) ==
    IF ~m.ok THEN TurnsFrom(c, p + 1)
    ELSE (IF HasMarker(m.g1, "SYSTEM") \/ HasMarker(m.g1, "CONTEXT") \/ strip(m.g2) = <<>>
          THEN <<>>
          ELSE <<[actor |-> strip(m.g1), content |-> strip(m.g2)]>>)
         \o TurnsFrom(c, m.end)

\* 'Last Published: ([^<\n]+)' searched in the HTML: <<>> for None.
CmsDate(html) ==
    LET S == {p \in 1..(Len(html) - 1) :
                 html[p] = "Last Published: " /\ html[p + 1] \notin {"<", "\n"}}
        E == {e \in (MinOf(S) + 1)..Len(html) : html[e] \in {"<", "\n"}}
    IN  IF S = {} THEN <<>>
        ELSE <<strip(SubSeq(html, MinOf(S) + 1,
                            IF E = {} THEN Len(html) ELSE MinOf(E) - 1))>>

\* list(set(lm_actor_pattern.findall(content))), as a set.
extract_lm_actors(content) ==
    {content[i] : i \in {j \in 1..Len(content) :
                            lower(content[j]) \in {"{lm1_actor}", "{lm2_actor}"}}}

\* The fallback left out: the blocks of the text.
FallbackBlocks_TextOnly(content, html, tagtype) == extract_blocks(content, tagtype)

\* The fallback with the HTML taken whenever there is one.
FallbackBlocks_HtmlFirst(content, html, tagtype) ==
    IF html # <<>> THEN extract_blocks(html, tagtype)
    ELSE extract_blocks(content, tagtype)

\* The blocks of a kind after the fallback: those of the HTML when there is
\* HTML and the text has none of the kind.
FallbackBlocks(content, html, tagtype) ==
    IF html # <<>> /\ extract_blocks(content, tagtype) = <<>>
    THEN extract_blocks(html, tagtype)
    ELSE extract_blocks(content, tagtype)

\* The dict extract_metadata returns, with the block lists it was made from.
MetaOf(base, html, actors, models, temperature, sys_blocks, ctx_blocks, turns, lm) ==
    IF temperature.tag = "Raise" THEN temperature
    ELSE Returned([timestamp |-> IF NameMatch(base).ok THEN <<int(NameMatch(base).g1)>> ELSE <<>>,
                   cms_date |-> CmsDate(html),
                   filename |-> base,
                   system_prompts |-> SystemPromptsOf(actors, sys_blocks),
                   contexts |-> ContextsOf(actors, ctx_blocks),
                   roles |-> actors,
                   models |-> models,
                   actors |-> actors,
                   temperature |-> temperature.value,
                   num_turns |-> Len(turns),
                   lm_actors |-> lm,
                   sys_blocks |-> sys_blocks,
                   ctx_blocks |-> ctx_blocks,
                   conversation_turns |-> turns])

\* extract_metadata(txt_path, html_path) for the content of the two files; an
\* HTML file that is missing or empty is <<>>.
extract_metadata(txt_path, content, html) ==
    MetaOf(basename(txt_path), html,
           ListOfLine(SearchMetaLine(content, "actors:")),
           ListOfLine(SearchMetaLine(content, "models:")),
           FloatsOfLine(SearchMetaLine(content, "temp:")),
           FallbackBlocks(content, html, "SYSTEM"),
           FallbackBlocks(content, html, "CONTEXT"),
           TurnsFrom(content, 1),
           extract_lm_actors(content))

\* The records the rebuild is run on.
ClaudeBare == <<"claude">>

ClaudeDash == <<"claude", "-", "2">>

\* The header line of the records that carry one.
MetaHeader ==
    RenderHeader([present |-> TRUE, digits |-> <<"3", "0", "0">>, value |-> 300, slug |-> <<"x">>])

\* The header, actors:, models: and temp: lines of a record.
MetaHeads ==
    { [names |-> <<>>, text |-> <<>>],
      [names |-> <<ClaudeBare, ClaudeDash>>,
       text |-> MetaHeader \o <<"actors:", " ">> \o ClaudeBare \o <<",", " ">> \o ClaudeDash \o <<"\n">>
                \o <<"models:", " ", "opus", ",", " ", "opus", "\n">> \o NumericTempText],
      [names |-> <<<<"Claude", "-", "2">>>>,
       text |-> MetaHeader \o <<"actors:", " ", "Claude", "-", "2", "\n">>],
      [names |-> <<ClaudeBare, ClaudeDash>>,
       text |-> <<"actors:", " ", " ">> \o ClaudeBare \o <<",">> \o ClaudeDash \o <<"\n">>
                \o <<"temp:", " ", "hot", "\n">>] }

MetaBlockKinds ==
    { [kind |-> "SYSTEM",  label |-> ClaudeBare, body |-> <<"sysA">>, closed |-> TRUE],
      [kind |-> "SYSTEM",  label |-> ClaudeDash, body |-> <<"sysB">>, closed |-> TRUE],
      [kind |-> "SYSTEM",  label |-> ClaudeBare, body |-> <<"sysC">>, closed |-> FALSE],
      [kind |-> "CONTEXT", label |-> ClaudeBare, body |-> <<JsonMsgText>>, closed |-> FALSE],
      [kind |-> "CONTEXT", label |-> ClaudeDash, body |-> <<JsonEmptyText>>, closed |-> FALSE],
      [kind |-> "TURN",    label |-> ClaudeBare, body |-> <<"A">>, closed |-> FALSE] }

\* The bodies of a record: up to MaxBlocks different blocks, in the order of
\* the dialect.
MetaBlockSeqs ==
    {bs \in UNION {[1..n -> MetaBlockKinds] : n \in 0..MaxBlocks} :
        /\ InDialectOrder(bs)
        /\ \A i, j \in 1..Len(bs) : i # j => bs[i] # bs[j]}

MetaRecords == [head : MetaHeads, blocks : MetaBlockSeqs]

MetaText(r) == r.head.text \o <<"\n">> \o RenderBlocks(r.blocks)

\* The HTML companions: none (or an empty file), a page with a SYSTEM and a
\* CONTEXT block of claude and a publication date, a page with a SYSTEM block
\* of claude-2 whose tag is written in small letters and a CONTEXT block of
\* claude-2 whose body is a JSON object.
NoHtml == <<>>

HtmlA ==
    <<"Last Published: ", "Tue Apr 30 2024", "\n">>
    \o RenderBlock([kind |-> "SYSTEM", label |-> ClaudeBare, body |-> <<"hsysA">>, closed |-> TRUE])
    \o RenderBlock([kind |-> "CONTEXT", label |-> ClaudeBare, body |-> <<JsonMsgText>>, closed |-> FALSE])

HtmlB ==
    <<"<">> \o ClaudeDash \o <<"#", "system", ">", "\n", "hsysB", "\n">>
    \o RenderBlock([kind |-> "CONTEXT", label |-> ClaudeDash, body |-> <<JsonDictText>>, closed |-> FALSE])

HtmlPairs == {<<NoHtml, HtmlA>>, <<NoHtml, HtmlB>>, <<HtmlA, HtmlB>>}

InitRebuild ==
    /\ pc = "start"
    /\ called = "none" /\ result = None
    /\ listing = <<>> /\ personality = "" /\ max_conversations = <<>>
    /\ start_date = <<>> /\ end_date = <<>> /\ custom_template = <<>>
    /\ conversation_files = <<>> /\ idx = 0 /\ visited = <<>>
    /\ templates = {} /\ output = {} /\ calls = <<>>
    /\ NoTemplateCall
    /\ rec \in MetaRecords
    /\ file = File(MetaText(rec))
    /\ filepath \in {join(ConversationsDir, GoodName), join(ConversationsDir, Name20notes)}
    /\ html_content \in HtmlPairs
    /\ meta = <<None, None>>

\* meta = extract_metadata(txt_path, html_path), the record taken with its
\* k-th companion.
ExtractMetadata(k) ==
    /\ pc = "start"
    /\ meta[k] = None
    /\ meta' = [meta EXCEPT ![k] = extract_metadata(filepath, file.content, html_content[k])]
    /\ called' = "extract_metadata"
    /\ UNCHANGED <<pc, rec, filepath, file, result, batchArgs, batchVars, tmplVars, html_content>>

\* structure = parser.parse_conversation_content(content), on the text of
\* the same record.
ParseRecord ==
    /\ pc = "start"
    /\ result = None
    /\ result' = parse_conversation_content(file.content)
    /\ UNCHANGED <<pc, filepath, parserVars, batchArgs, batchVars, tmplVars, rebuildVars>>

NextRebuild == (\E k \in 1..2 : ExtractMetadata(k)) \/ ParseRecord

SpecRebuild == InitRebuild /\ [][NextRebuild]_vars


(***************************************************************************)
(* What a record declares, read off its parts.                             *)
(***************************************************************************)
BlocksOfKind(r, kind) == SelectSeq(r.blocks, LAMBDA b : b.kind = kind)

\* One turn per bare tag of the record, in document order.
DeclaredTurns(r) ==
    LET ts == BlocksOfKind(r, "TURN")
    IN  [k \in 1..Len(ts) |-> [actor |-> ts[k].label, content |-> ts[k].body]]

HasBadContext(r) ==
    \E k \in 1..Len(r.blocks) :
        r.blocks[k].kind = "CONTEXT" /\ r.blocks[k].body = <<JsonBadText>>

\* The record with every malformed CONTEXT body replaced by [].
Repaired(r) ==
    [r EXCEPT !.blocks =
        [k \in 1..Len(r.blocks) |->
            IF r.blocks[k].kind = "CONTEXT" /\ r.blocks[k].body = <<JsonBadText>>
            THEN [r.blocks[k] EXCEPT !.body = <<JsonEmptyText>>]
            ELSE r.blocks[k]]]

\* The record with a numeric temp: line.
WithNumericTemp(r) ==
    [r EXCEPT !.temp = [kind |-> "numeric", text |-> NumericTempText]]

\* The entry point that ran, applied to another record.
Rerun(r) ==
    IF called = "parse_conversation_file"
    THEN parse_conversation_file(File(Render(r)))
    ELSE parse_conversation_content(Render(r))

Parsed == pc = "done" /\ file.readable

(***************************************************************************)
(* C1: a content with a conversation_<digits>_scenario_<slug>.txt header   *)
(* and an actors: line of k names parses to a structure whose timestamp is *)
(* the digits as an integer, whose scenario is the slug and whose actors   *)
(* are the k trimmed names in order.                                       *)
(***************************************************************************)
C1_HeaderAndActorsParse ==
    (Parsed /\ rec.header.present /\ rec.actors.present)
    => /\ result.tag = "Structure"
       /\ result.timestamp = rec.header.value
       /\ result.scenario = rec.header.slug
       /\ result.actors = rec.actors.names

\* C1 read with the temp: line numeric or absent: the only records of the
\* model on which C1_HeaderAndActorsParse fails are those of C5.
C1_HoldsUnlessTempBad ==
    (Parsed /\ rec.header.present /\ rec.actors.present /\ rec.temp.kind # "bad")
    => /\ result.tag = "Structure"
       /\ result.timestamp = rec.header.value
       /\ result.scenario = rec.header.slug
       /\ result.actors = rec.actors.names

(***************************************************************************)
(* C2: conversation_turns holds exactly one entry per bare <label> tag, in *)
(* document order, with the label and the trimmed body; a #SYSTEM tag, a   *)
(* #CONTEXT tag and the </s> terminator give no entry.                     *)
(***************************************************************************)
C2_TurnsAreTheBareTags ==
    (Parsed /\ result.tag = "Structure")
    => result.conversation_turns = DeclaredTurns(rec)

(***************************************************************************)
(* C3: with two declared actors and one well-formed CONTEXT block of the   *)
(* first actor, the structure has a context slot per actor: the first is   *)
(* the decoded array, the second exists and is empty.                      *)
(***************************************************************************)
C3_ContextSlotPerActor ==
    (/\ Parsed
     /\ result.tag = "Structure"
     /\ Len(rec.actors.names) = 2
     /\ Len(BlocksOfKind(rec, "CONTEXT")) = 1
     /\ BlocksOfKind(rec, "CONTEXT")[1].label = rec.actors.names[1]
     /\ BlocksOfKind(rec, "CONTEXT")[1].body = <<JsonMsgText>>)
    => /\ Len(result.context) = 2
       /\ result.context[1] = JsonValue("list", <<[role |-> <<"user">>, content |-> <<"hi">>]>>)
       /\ result.context[2] = EmptyList

(***************************************************************************)
(* C4: a CONTEXT block whose body is not valid JSON gives an empty         *)
(* sequence in its slot and no parse failure; everything else is what the  *)
(* parse gives when that block holds [].                                   *)
(***************************************************************************)
C4_MalformedContextIsLocal ==
    (Parsed /\ HasBadContext(rec))
    => /\ result = Rerun(Repaired(rec))
       /\ result.tag = "Structure" =>
            LET cs == BlocksOfKind(rec, "CONTEXT")
            IN  /\ Len(result.context) = Len(cs)
                /\ \A k \in 1..Len(cs) :
                      cs[k].body = <<JsonBadText>> => result.context[k] = EmptyList

\* C4's case: a parsed record with a malformed CONTEXT block beside a
\* well-formed one.
C4_Witness ==
    /\ Parsed
    /\ HasBadContext(rec)
    /\ result.tag = "Structure"
    /\ \E k \in 1..Len(result.context) : result.context[k] # EmptyList

(***************************************************************************)
(* C5: a non-numeric token on the temp: line empties the temperature list  *)
(* only: the record still parses, and its other fields are those of the    *)
(* same record with a numeric temp: line.                                  *)
(***************************************************************************)
C5_BadTempIsLocal ==
    (Parsed /\ rec.temp.kind = "bad" /\ rec.header.present)
    => /\ result.tag = "Structure"
       /\ result.temperature = <<>>
       /\ [result EXCEPT !.temperature = <<>>]
            = [Rerun(WithNumericTemp(rec)) EXCEPT !.temperature = <<>>]

(***************************************************************************)
(* C7: the timestamp and the scenario are recovered when the pattern is in *)
(* the file name or in a header line of the content: a file whose name     *)
(* matches parses even when its content has no header.  (Stated for        *)
(* records whose temp: line is numeric or absent.)                         *)
(***************************************************************************)
C7_NameOrHeaderSuffices ==
    (/\ Parsed
     /\ called = "parse_conversation_file"
     /\ rec.temp.kind # "bad"
     /\ (NameMatch(filepath).ok \/ rec.header.present))
    => /\ result.tag = "Structure"
       /\ ~endswith(result.scenario, <<".", "txt">>)

(***************************************************************************)
(* C8: parse_conversation_file and parse_conversation_content never raise: *)
(* whatever the input, each returns a complete ConversationStructure or    *)
(* None.                                                                   *)
(***************************************************************************)
C8_NeverRaises ==
    pc = "done"
    => \/ result = None
       \/ /\ result.tag = "Structure"
          /\ DOMAIN result = {"tag", "timestamp", "scenario", "actors", "models",
                              "temperature", "system_prompts", "context",
                              "conversation_turns"}

\* C8's case: a fault inside the try block (float() raising ValueError, or
\* open() failing) came back as None.
C8_Witness ==
    /\ pc = "done"
    /\ result = None
    /\ \/ ~file.readable
       \/ ParseBody(file.content).tag = "Raise"

(***************************************************************************)
(* The batch drivers: what the claims speak of.                            *)
(***************************************************************************)
\* The place of a visited file in the directory listing.
ListingPos(path) == CHOOSE i \in 1..Len(listing) : listing[i] = basename(path)

\* The visited files whose name holds conversation_<digits>.
Stamped == {i \in 1..Len(visited) : SearchConvDigits(basename(visited[i])).ok}

\* The integer timestamp in the name of the i-th visited file.
VisitedStamp(i) == int(SearchConvDigits(basename(visited[i])).g1)

\* C6: a record whose file name lacks conversation_<digits>_scenario_<slug> is
\* a parse failure for the chronological driver, and the driver writes no
\* output file for it.
C6_NoOutputWithoutNamePattern ==
    /\ (filepath # <<>> /\ ~NameMatch(basename(filepath)).ok) => result = None
    /\ \A i \in 1..Len(visited) :
          ~NameMatch(basename(visited[i])).ok
             => \A f \in output : f.name # OutputName(visited[i])

\* C9, as the claim states it: the chronological driver visits the records in
\* strictly ascending order of the timestamp in the file name.
C9_StrictlyAscending ==
    \A i, j \in 1..Len(visited) : i < j => VisitedStamp(i) < VisitedStamp(j)

\* C9, amended: the chronological driver visits the records in non-decreasing
\* order of the timestamp in the file name, records of equal timestamp in the
\* order of the directory listing; without a cap every conversation file of
\* the listing is visited by the end.
C9_AscendingTiesInListingOrder ==
    /\ \A i, j \in 1..Len(visited) :
          i < j => \/ VisitedStamp(i) < VisitedStamp(j)
                   \/ /\ VisitedStamp(i) = VisitedStamp(j)
                      /\ ListingPos(visited[i]) < ListingPos(visited[j])
    /\ (pc = "done" /\ max_conversations = <<>>)
          => \A k \in 1..Len(listing) :
                IsConversationFile(listing[k])
                   => \E i \in 1..Len(visited) : basename(visited[i]) = listing[k]

\* C9 happens: a run has ended after three records, two of them of one
\* timestamp, visited in another order than the directory lists them.
C9_Witness ==
    /\ pc = "done"
    /\ Len(visited) >= 3
    /\ \E i, j \in 1..Len(visited) : i < j /\ VisitedStamp(i) = VisitedStamp(j)
    /\ \E i, j \in 1..Len(visited) :
          i < j /\ ListingPos(visited[j]) < ListingPos(visited[i])

\* C10: step 3 of the pipeline visits the records in ascending order of the
\* integer timestamp in the file name, whatever the number of its digits: of
\* two visited records the one of the larger timestamp never comes first.
C10_AscendingAcrossDigitCounts ==
    \A i, j \in Stamped : i < j => VisitedStamp(i) <= VisitedStamp(j)

(***************************************************************************)
(* C11, C12: failures of single records in the chronological driver.       *)
(***************************************************************************)
\* The engine made the run fail: a non-zero exit status, or an exception
\* while it was launched.
EngineFailed(run) == run.outcome.kind = "raise" \/ run.outcome.returncode # 0

\* The engine exited with status 0 and a transcript.
EngineSucceeded(run) ==
    run.outcome.kind = "exit" /\ run.outcome.returncode = 0 /\ run.outcome.stdout # ""

\* The transcript file of a run is in the output directory.
OutputWritten(run) ==
    [name |-> OutputName(run.record), content |-> run.outcome.stdout] \in output

\* C11: no failure of a single record ends the chronological driver.  Once
\* the loop is entered the driver never aborts; the records before the loop
\* position are exactly the visited ones, each once and in order, whatever
\* record failed to parse or to generate; at the end every selected record
\* has been visited; the output of every record whose generation succeeded is
\* written.
C11_SkipsAndContinues ==
    /\ pc = "crashed" => visited = <<>>
    /\ pc \in {"loop", "done"} =>
          /\ idx \in 1..(Len(conversation_files) + 1)
          /\ visited = SubSeq(conversation_files, 1, idx - 1)
          /\ \A i, j \in 1..Len(visited) : i # j => visited[i] # visited[j]
    /\ pc = "done" => visited = conversation_files
    /\ \A k \in 1..Len(calls) : EngineSucceeded(calls[k]) => OutputWritten(calls[k])

\* C11 happens: a run that ended after a record whose engine run failed and a
\* record that did not parse, with the output of a later record written.
C11_Witness ==
    /\ pc = "done"
    /\ Len(visited) > Len(calls)
    /\ \E k, l \in 1..Len(calls) :
          /\ k < l
          /\ EngineFailed(calls[k])
          /\ EngineSucceeded(calls[l])
          /\ OutputWritten(calls[l])

\* The run a step of the driver has added to the log.
LastRun == calls'[Len(calls')]

\* C12: a step of the chronological driver whose engine run failed (non-zero
\* exit status, or an exception at its launch) leaves the output directory as
\* it was; a step changes the output directory only for a record that parsed
\* and whose engine run exited with status 0, and only at that record's
\* transcript file.
C12_NoOutputOnEngineFailure ==
    [][ /\ (Len(calls') > Len(calls) /\ EngineFailed(LastRun)) => output' = output
        /\ output' # output =>
              /\ Len(calls') = Len(calls) + 1
              /\ LastRun.outcome.kind = "exit"
              /\ LastRun.outcome.returncode = 0
              /\ result' # None
              /\ LastRun.record = filepath'
              /\ \A f \in (output' \ output) \union (output \ output') :
                    f.name = OutputName(LastRun.record)
      ]_vars

\* C12 happens: the engine run for GoodName failed and the transcript an
\* earlier run left for it is still there, while the transcript of another
\* record was written.
C12_Witness ==
    /\ StaleOutput \in output
    /\ \E k \in 1..Len(calls) :
          /\ calls[k].record = join(ConversationsDir, GoodName)
          /\ EngineFailed(calls[k])
    /\ \E k \in 1..Len(calls) : EngineSucceeded(calls[k]) /\ OutputWritten(calls[k])

(***************************************************************************)
(* C13: the template projector.                                            *)
(***************************************************************************)
\* The lines of the template file a projection has written.
ProjectedLines == (CHOOSE t \in templates : t.name = TemplateName(result)).lines

\* C13: the template a structure is projected to has one line per declared
\* actor, in actor order; line i carries system_prompts[i] and context[i]
\* where these exist and the empty string and the empty list where they do
\* not; system prompts and contexts beyond the actors are left out.
C13_OneConfigPerActor ==
    pc = "projected" =>
       /\ Len(ProjectedLines) = Len(rec.actors.names)
       /\ Len(ProjectedLines) = Len(result.actors)
       /\ \A i \in 1..Len(ProjectedLines) :
             /\ ProjectedLines[i].system_prompt =
                   IF i <= Len(result.system_prompts)
                   THEN result.system_prompts[i] ELSE <<>>
             /\ ProjectedLines[i].context =
                   IF i <= Len(result.context) THEN result.context[i] ELSE EmptyList

\* C13 happens: a structure of two actors with three system prompts and one
\* context has been projected and saved.
C13_Witness ==
    /\ pc = "projected"
    /\ called = "save_template"
    /\ Len(result.actors) = 2
    /\ Len(result.system_prompts) = 3
    /\ Len(result.context) = 1
    /\ Len(ProjectedLines) = 2

(***************************************************************************)
(* C14.  Template round trip: create_template(name, configs) followed by   *)
(* load_template(name) returns a list of the same length whose i-th entry  *)
(* has the same system_prompt, context and cli as configs[i], whatever the *)
(* template directory held before (an existing longer file of the same     *)
(* name included).                                                         *)
(***************************************************************************)
RoundTripDone == pc = "loaded" /\ called = "create_template"

C14_RoundTripIsLossless ==
    RoundTripDone =>
        /\ returned.tag = "Returned"
        /\ Len(returned.value) = Len(configs)
        /\ \A i \in 1..Len(configs) :
              /\ returned.value[i].system_prompt = configs[i].system_prompt
              /\ returned.value[i].context = configs[i].context
              /\ returned.value[i].cli = configs[i].cli

\* C14 witness: a round trip done, the file holding exactly the two lines
\* written, with a prompt that holds a line break, a context message and cli
\* set on one config only.
C14_Witness ==
    /\ RoundTripDone
    /\ returned.tag = "Returned"
    /\ Len(configs) = 2
    /\ Len((CHOOSE t \in templates : t.name = ManagedTemplate).lines) = 2
    /\ configs[1].system_prompt = <<"a", "\n", "b">>
    /\ configs[1].cli
    /\ configs[2].context # EmptyList
    /\ ~configs[2].cli
    /\ returned.value[1].system_prompt = <<"a", "\n", "b">>

(***************************************************************************)
(* C15.  Applying a personality identifier of the catalog sets an empty    *)
(* system prompt to exactly the personality's modifier text and a          *)
(* non-empty one to the old prompt, a blank line and exactly the modifier  *)
(* text; for PersonalityManager.apply_personality_to_template and for the  *)
(* modifier ConversationRecreator applies.                                 *)
(***************************************************************************)
\* The modifier text of a personality: for the recreator the text of its own
\* table where it has one, else the text of the catalog without the white
\* space around it.
ModifierText(entry, p) ==
    IF entry = "apply_personality_modifier" /\ p \in RecreatorPersonalities
    THEN personality_prompts(p)
    ELSE strip(system_prompt_modifier(p))

ExpectedPrompt(old, text) ==
    IF old = <<>> THEN text ELSE old \o <<"\n", "\n">> \o text

Applying == pc = "start" /\ pc' = "applied"

C15_ModifierAppliedExactly ==
    [][(Applying /\ personality \in ManagerPersonalities) =>
          /\ returned'.tag = "Returned"
          /\ Len(returned'.value) = Len(configs)
          /\ \A i \in 1..Len(configs) :
                returned'.value[i].system_prompt
                    = ExpectedPrompt(configs[i].system_prompt,
                                     ModifierText(called', personality))]_vars

(***************************************************************************)
(* C16.  Applying a personality identifier that is not in the catalog is a *)
(* no-op and not a failure: no exception, and the template returned has    *)
(* the same configs in the same order, with system_prompt, context and cli *)
(* unchanged and no personality metadata.                                  *)
(***************************************************************************)
C16_UnknownPersonalityIsNoOp ==
    [][(Applying /\ personality \notin ManagerPersonalities) =>
          /\ returned'.tag = "Returned"
          /\ Len(returned'.value) = Len(configs)
          /\ \A i \in 1..Len(configs) :
                /\ returned'.value[i].system_prompt = configs[i].system_prompt
                /\ returned'.value[i].context = configs[i].context
                /\ returned'.value[i].cli = configs[i].cli
                /\ "personality" \notin DOMAIN returned'.value[i]
          /\ configs' = configs]_vars

\* C16 witness: the manager has been handed two configs, one with a prompt,
\* and an identifier that is no key of the catalog, and has returned them.
C16_Witness ==
    /\ pc = "applied"
    /\ called = "apply_personality_to_template"
    /\ personality = "bogus"
    /\ Len(configs) = 2
    /\ configs[1].system_prompt # <<>>
    /\ returned = Returned(configs)

(***************************************************************************)
(* The rebuild of one record with two HTML companions.                     *)
(***************************************************************************)
BothRebuilt == meta # <<>> /\ meta[1] # None /\ meta[2] # None

BothReturned == BothRebuilt /\ meta[1].tag = "Returned" /\ meta[2].tag = "Returned"

\* The plain text of the record holds a block of the kind.
TextHas(kind) == BlocksOfKind(rec, kind) # <<>>

SamePrompts == meta[1].value.system_prompts = meta[2].value.system_prompts

SameContexts == meta[1].value.contexts = meta[2].value.contexts

(***************************************************************************)
(* C17.  When the plain text of a record yields at least one SYSTEM or     *)
(* CONTEXT block, the HTML fallback is not consulted: for any two HTML     *)
(* companions of the same record the resulting system prompts and contexts *)
(* are identical.                                                          *)
(***************************************************************************)
C17_AnyBlockShutsFallback ==
    (BothRebuilt /\ (TextHas("SYSTEM") \/ TextHas("CONTEXT"))) =>
        /\ meta[1].tag = meta[2].tag
        /\ meta[1].tag = "Returned" => (SamePrompts /\ SameContexts)

\* C17 as amended: the fallback is taken kind by kind.  When the plain text
\* yields at least one SYSTEM block the system prompts are identical for any
\* two HTML companions, and when it yields at least one CONTEXT block the
\* contexts are; with blocks of both kinds both are.
C17_FallbackPerKind ==
    BothRebuilt =>
        /\ meta[1].tag = meta[2].tag
        /\ (meta[1].tag = "Returned" /\ TextHas("SYSTEM")) => SamePrompts
        /\ (meta[1].tag = "Returned" /\ TextHas("CONTEXT")) => SameContexts

\* C17 witness: a record whose text holds SYSTEM blocks only has been rebuilt
\* with two companions that both hold a SYSTEM block; the prompts are those
\* of the text in both, the contexts differ.
C17_Witness ==
    /\ BothReturned
    /\ html_content = <<HtmlA, HtmlB>>
    /\ TextHas("SYSTEM") /\ ~TextHas("CONTEXT")
    /\ SamePrompts
    /\ Len(meta[1].value.system_prompts) = 2
    /\ meta[1].value.system_prompts[1] # <<>>
    /\ ~SameContexts

(***************************************************************************)
(* C18.  When the plain text yields zero SYSTEM/CONTEXT blocks and an HTML *)
(* companion exists, the blocks extracted from the HTML body are used for  *)
(* system prompts and contexts, while actors, models, temperature and the  *)
(* turn list are computed from the plain text only and are unchanged by    *)
(* the presence or content of the HTML.                                    *)
(***************************************************************************)
\* What the text declares: the names of the actors: line and the turns.
DeclaredTurnsOf(r) ==
    [i \in 1..Len(BlocksOfKind(r, "TURN")) |->
        [actor |-> BlocksOfKind(r, "TURN")[i].label,
         content |-> BlocksOfKind(r, "TURN")[i].body]]

HtmlUsed(k) ==
    /\ meta[k].value.system_prompts
          = SystemPromptsOf(rec.head.names, extract_blocks(html_content[k], "SYSTEM"))
    /\ meta[k].value.contexts
          = ContextsOf(rec.head.names, extract_blocks(html_content[k], "CONTEXT"))

C18_HtmlBlocksTextFrame ==
    /\ BothRebuilt => meta[1].tag = meta[2].tag
    /\ BothReturned =>
          /\ meta[1].value.actors = meta[2].value.actors
          /\ meta[1].value.models = meta[2].value.models
          /\ meta[1].value.temperature = meta[2].value.temperature
          /\ meta[1].value.conversation_turns = meta[2].value.conversation_turns
          /\ meta[1].value.num_turns = meta[2].value.num_turns
    /\ meta # <<>> =>
          \A k \in 1..2 :
             (meta[k] # None /\ meta[k].tag = "Returned") =>
                /\ meta[k].value.actors = rec.head.names
                /\ meta[k].value.conversation_turns = DeclaredTurnsOf(rec)
                /\ (html_content[k] # NoHtml /\ ~TextHas("SYSTEM") /\ ~TextHas("CONTEXT"))
                      => HtmlUsed(k)

\* C18 witness: a record with two actors, a turn and no SYSTEM or CONTEXT
\* block has been rebuilt without a companion and with one; the second run
\* took the prompt and the context of claude from the HTML, the first has
\* none, and both count the one turn.
C18_Witness ==
    /\ BothReturned
    /\ html_content = <<NoHtml, HtmlA>>
    /\ ~TextHas("SYSTEM") /\ ~TextHas("CONTEXT")
    /\ rec.head.names = <<ClaudeBare, ClaudeDash>>
    /\ meta[1].value.system_prompts = <<<<>>, <<>>>>
    /\ meta[2].value.system_prompts[1] # <<>>
    /\ meta[2].value.contexts[1] # EmptyList
    /\ meta[1].value.num_turns = 1
    /\ meta[2].value.num_turns = 1

(***************************************************************************)
(* C19.  For every record with N declared actors and N well-formed SYSTEM  *)
(* blocks and N well-formed CONTEXT blocks whose labels exactly equal the  *)
(* declared actor names (names that are substrings of one another          *)
(* included), label-matching alignment gives system_prompts[i] and         *)
(* contexts[i] equal to the body of the block labelled actors[i].          *)
(***************************************************************************)
\* The blocks of the kind carry each declared name exactly once.
OneBlockPerActor(r, kind) ==
    /\ Len(BlocksOfKind(r, kind)) = Len(r.head.names)
    /\ \A i \in 1..Len(r.head.names) :
          Cardinality({j \in 1..Len(BlocksOfKind(r, kind)) :
                          BlocksOfKind(r, kind)[j].label = r.head.names[i]}) = 1

WellFormedBlocks(r) ==
    /\ r.head.names # <<>>
    /\ OneBlockPerActor(r, "SYSTEM")
    /\ OneBlockPerActor(r, "CONTEXT")
    /\ \A j \in 1..Len(r.blocks) : r.blocks[j].kind = "SYSTEM" => r.blocks[j].closed

\* The extracted block that is labelled with the name.
BlockLabelled(blocks, name) ==
    (CHOOSE b \in {blocks[j] : j \in 1..Len(blocks)} : b.actor = name).block

C19_LabelsAlign ==
    (meta # <<>> /\ WellFormedBlocks(rec)) =>
        \A k \in 1..2 :
           (meta[k] # None /\ meta[k].tag = "Returned") =>
              \A i \in 1..Len(rec.head.names) :
                 /\ meta[k].value.system_prompts[i]
                       = BlockLabelled(meta[k].value.sys_blocks, rec.head.names[i])
                 /\ meta[k].value.contexts[i]
                       = ContextOfBlock(BlockLabelled(meta[k].value.ctx_blocks,
                                                      rec.head.names[i]))

(***************************************************************************)
(* C20.  The tag extractor returns, for a given kind, one (label, body)    *)
(* pair per tag of that kind in document order, and each body runs from    *)
(* the end of its tag to the next tag of any kind or to the end of input;  *)
(* a body never contains a later tag or that later tag's text.  Zero       *)
(* matching tags give an empty sequence.                                   *)
(***************************************************************************)
\* The body holds the opening of a tag (the terminator </s> is not counted).
HoldsTag(body) ==
    \E t \in 1..(Len(body) - 1) : body[t] = "<" /\ body[t + 1] # "/s"

OnePairPerTag(blocks, declared) ==
    /\ Len(blocks) = Len(declared)
    /\ \A i \in 1..Len(declared) :
          /\ blocks[i].actor = declared[i].label
          /\ ~HoldsTag(blocks[i].block)

C20_BodiesEndAtNextTag ==
    meta # <<>> =>
        \A k \in 1..2 :
           (meta[k] # None /\ meta[k].tag = "Returned" /\ html_content[k] = NoHtml) =>
              /\ OnePairPerTag(meta[k].value.sys_blocks, BlocksOfKind(rec, "SYSTEM"))
              /\ OnePairPerTag(meta[k].value.ctx_blocks, BlocksOfKind(rec, "CONTEXT"))

(***************************************************************************)
(* C21.  A SYSTEM block's body ends at its </s> terminator when one is     *)
(* present; when the terminator is absent the block is still extracted,    *)
(* with a body that ends at the next tag or at the end of input, so the    *)
(* number of system prompts equals the number of SYSTEM tags and no prompt *)
(* spans another tag.                                                      *)
(***************************************************************************)
\* The bodies of the SYSTEM blocks the record declares, in document order.
DeclaredPrompts(r) ==
    [i \in 1..Len(BlocksOfKind(r, "SYSTEM")) |-> BlocksOfKind(r, "SYSTEM")[i].body]

C21_SystemBodyEndsAtTerminatorOrTag ==
    /\ result.tag = "Structure" => result.system_prompts = DeclaredPrompts(rec)
    /\ meta # <<>> =>
          \A k \in 1..2 :
             (meta[k] # None /\ meta[k].tag = "Returned" /\ html_content[k] = NoHtml) =>
                [i \in 1..Len(meta[k].value.sys_blocks) |-> meta[k].value.sys_blocks[i].block]
                    = DeclaredPrompts(rec)

(***************************************************************************)
(* The engine command and the personality.                                 *)
(***************************************************************************)
\* The command recreate_conversation builds for a structure under the
\* defaults of the driver: a function of the structure alone.
CommandOf(structure) ==
    [lm |-> DefaultModels, template |-> TemplateName(structure),
     max_turns |-> DefaultMaxTurns]

\* The command of a logged run: --lm, --template and --max-turns.
CommandIn(run) ==
    [lm |-> run.call.lm, template |-> run.call.template,
     max_turns |-> run.call.max_turns]

\* C22: the personality never influences the engine invocation.  Every step
\* of the driver that runs the engine hands it the command that the
\* structure, the model list and the turn ceiling determine, whichever
\* personality (or none) the driver was given.
C22_CommandIgnoresPersonality ==
    [][ Len(calls') > Len(calls) => CommandIn(LastRun) = CommandOf(result') ]_vars

\* C22 happens: under a personality the engine was run on a template file
\* whose prompts carry the modifier, with the command of the bare structure.
C22_Witness ==
    /\ personality # ""
    /\ result # None
    /\ Len(calls) >= 1
    /\ calls[Len(calls)].record = filepath
    /\ CommandIn(calls[Len(calls)]) = CommandOf(result)
    /\ calls[Len(calls)].call.file =
          {TemplateFile(TemplateName(result),
                        save_template(apply_personality_modifier(
                            create_template_from_structure(result), personality)))}
    /\ apply_personality_modifier(create_template_from_structure(result), personality)
          # create_template_from_structure(result)

(***************************************************************************)
(* Label matching in extract_metadata.                                     *)
(***************************************************************************)
\* The label and the actor name, both in small letters, one holding the other.
Alike(label, actor) ==
    \/ IsSubstr(LowerSeq(label), LowerSeq(actor))
    \/ IsSubstr(LowerSeq(actor), LowerSeq(label))

\* Block j is the first of the blocks, in document order, that is alike the
\* actor.
IsFirstAlike(blocks, j, actor) ==
    /\ Alike(blocks[j].actor, actor)
    /\ \A h \in 1..(j - 1) : ~Alike(blocks[h].actor, actor)

\* The metadata the rebuild returned for the k-th companion.
Rebuilt(k) == meta # <<>> /\ meta[k] # None /\ meta[k].tag = "Returned"

\* C23: label matching is first-match-wins.  For each declared actor the
\* prompt slot holds the body of the first SYSTEM block, in document order,
\* whose label holds the actor name or is held by it (letter case aside),
\* whatever matching blocks follow and whichever other actor that block
\* serves; the context slot is decided the same way by the CONTEXT blocks
\* alone.
C23_FirstMatchWins ==
    \A k \in 1..2 :
       Rebuilt(k) =>
          \A i \in 1..Len(meta[k].value.actors) :
             /\ \A j \in 1..Len(meta[k].value.sys_blocks) :
                   IsFirstAlike(meta[k].value.sys_blocks, j, meta[k].value.actors[i]) =>
                      meta[k].value.system_prompts[i] = strip(meta[k].value.sys_blocks[j].block)
             /\ \A j \in 1..Len(meta[k].value.ctx_blocks) :
                   IsFirstAlike(meta[k].value.ctx_blocks, j, meta[k].value.actors[i]) =>
                      meta[k].value.contexts[i] = ContextOfBlock(meta[k].value.ctx_blocks[j].block)

\* C23 happens: two SYSTEM blocks with different bodies are both alike the
\* second actor, the first of them fills the slots of both actors, and the
\* context slot of the first actor holds the list of the only CONTEXT block.
C23_Witness ==
    \E k \in 1..2 :
       /\ Rebuilt(k)
       /\ Len(meta[k].value.actors) = 2
       /\ Len(meta[k].value.sys_blocks) >= 2
       /\ Alike(meta[k].value.sys_blocks[1].actor, meta[k].value.actors[2])
       /\ Alike(meta[k].value.sys_blocks[2].actor, meta[k].value.actors[2])
       /\ meta[k].value.sys_blocks[1].block # meta[k].value.sys_blocks[2].block
       /\ meta[k].value.system_prompts[1] = strip(meta[k].value.sys_blocks[1].block)
       /\ meta[k].value.system_prompts[2] = strip(meta[k].value.sys_blocks[1].block)
       /\ Len(meta[k].value.ctx_blocks) = 1
       /\ meta[k].value.contexts[1] = ContextOfBlock(meta[k].value.ctx_blocks[1].block)
       /\ meta[k].value.contexts[1] # EmptyList

\* No block of the list is alike the actor.
Unmatched(blocks, actor) ==
    \A j \in 1..Len(blocks) : ~Alike(blocks[j].actor, actor)

\* C24: the per-actor lists have one slot per declared actor.  Whatever the
\* input, system_prompts and contexts are as long as actors; an actor no
\* block is alike has the empty string and the empty list; every context
\* slot is a list, and it is the empty one when the body of the deciding
\* CONTEXT block decodes to a JSON value that is no list.
C24_OneSlotPerActor ==
    \A k \in 1..2 :
       Rebuilt(k) =>
          /\ Len(meta[k].value.system_prompts) = Len(meta[k].value.actors)
          /\ Len(meta[k].value.contexts) = Len(meta[k].value.actors)
          /\ \A i \in 1..Len(meta[k].value.actors) :
                /\ Unmatched(meta[k].value.sys_blocks, meta[k].value.actors[i]) =>
                      meta[k].value.system_prompts[i] = <<>>
                /\ Unmatched(meta[k].value.ctx_blocks, meta[k].value.actors[i]) =>
                      meta[k].value.contexts[i] = EmptyList
                /\ meta[k].value.contexts[i].kind = "list"
                /\ \A j \in 1..Len(meta[k].value.ctx_blocks) :
                      ( /\ IsFirstAlike(meta[k].value.ctx_blocks, j, meta[k].value.actors[i])
                        /\ json_loads(meta[k].value.ctx_blocks[j].block).kind # "list" ) =>
                         meta[k].value.contexts[i] = EmptyList

\* C24 happens: two actors were declared; without a companion no block was
\* found and the two prompts and the two contexts are empty; with a
\* companion whose only CONTEXT block decodes to a JSON object the second
\* prompt is filled and both context slots are the empty list.
C24_Witness ==
    /\ Rebuilt(1) /\ Rebuilt(2)
    /\ Len(meta[1].value.actors) = 2
    /\ meta[1].value.sys_blocks = <<>> /\ meta[1].value.ctx_blocks = <<>>
    /\ meta[1].value.system_prompts = << <<>>, <<>> >>
    /\ meta[1].value.contexts = <<EmptyList, EmptyList>>
    /\ Len(meta[2].value.ctx_blocks) = 1
    /\ json_loads(meta[2].value.ctx_blocks[1].block).kind = "dict"
    /\ meta[2].value.contexts = <<EmptyList, EmptyList>>
    /\ meta[2].value.system_prompts[2] # <<>>

(***************************************************************************)
(* Step 3 of the pipeline.                                                 *)
(***************************************************************************)
\* A step of step 3 that has gone through the loop body for a file that
\* parsed, no custom template being given, and has not ended step 3.
Step3Recreated ==
    /\ Len(visited') = Len(visited) + 1
    /\ result' # None
    /\ custom_template = <<>>
    /\ pc' # "crashed"

\* C25: for each file that parses in step 3 (no custom template given) a
\* template is projected and persisted, the engine is invoked once with the
\* name of that template, and the transcript the engine returns is persisted
\* under recreated_<input filename>.
C25_Step3RunsEngine ==
    [][ Step3Recreated =>
          /\ \E t \in templates' : t.name = TemplateName(result')
          /\ Len(calls') = Len(calls) + 1
          /\ LastRun.record = filepath'
          /\ LastRun.call.template = TemplateName(result')
          /\ EngineSucceeded(LastRun) =>
                [name |-> OutputName(filepath'), content |-> LastRun.outcome.stdout] \in output'
      ]_vars

\* C26: a known personality never aborts step 3.  With a personality of the
\* catalog step 3 does not end on an exception, the records before the loop
\* position are the visited ones, and at the end every selected file has
\* been visited.
C26_KnownPersonalityKeepsBatch ==
    personality \in ManagerPersonalities =>
        /\ pc # "crashed"
        /\ pc = "loop" => visited = SubSeq(conversation_files, 1, idx - 1)
        /\ pc = "done" => visited = conversation_files

(***************************************************************************)
(* The cap and the sort of the chronological driver.                       *)
(***************************************************************************)
\* The files of a list, as a set.
FilesOf(fs) == {fs[i] : i \in 1..Len(fs)}

\* The list holds the n files of the directory with the smallest timestamps,
\* each once, in ascending order.
SmallestInOrder(fs, n) ==
    /\ Len(fs) = n
    /\ FilesOf(fs) \subseteq FilesOf(CollectFiles(listing))
    /\ \A i, j \in 1..Len(fs) :
          i < j => fs[i] # fs[j] /\ TimestampKey(fs[i]) <= TimestampKey(fs[j])
    /\ \A x \in FilesOf(CollectFiles(listing)) \ FilesOf(fs) :
          \A i \in 1..Len(fs) : TimestampKey(fs[i]) <= TimestampKey(x)

\* The visits and the engine runs of the driver stay within the selection.
OnlySelectedTouched ==
    /\ pc = "loop" => visited = SubSeq(conversation_files, 1, idx - 1)
    /\ pc = "done" => visited = conversation_files
    /\ \A k \in 1..Len(calls) : calls[k].record \in FilesOf(visited)

\* C27: with a cap N the driver visits exactly the min(N, total) records of
\* the smallest timestamps, in ascending order, and parses or runs no other
\* record; this for every N >= 0, a cap of 0 visiting no record.
C27_CapSelectsSmallest ==
    (max_conversations # <<>> /\ pc \in {"loop", "done"}) =>
        /\ SmallestInOrder(conversation_files,
                           MinOf({max_conversations[1], Len(CollectFiles(listing))}))
        /\ OnlySelectedTouched

\* A name the listing loop takes although it carries no digit timestamp.
NoTimestamp(name) ==
    IsConversationFile(name) /\ ~SearchConvDigits(join(ConversationsDir, name)).ok

\* C28: no single file name aborts the chronological driver.  With a file
\* in the directory whose name starts with conversation_ and ends with .txt
\* but carries no digit timestamp, the driver does not end on an exception,
\* and at its end (no cap given) every other record has been visited, in
\* timestamp order.
C28_NameWithoutTimestampIsSurvived ==
    (\E i \in 1..Len(listing) : NoTimestamp(listing[i])) =>
        /\ pc # "crashed"
        /\ (pc = "done" /\ max_conversations = <<>>) =>
              /\ \A i \in 1..Len(listing) :
                    (IsConversationFile(listing[i]) /\ ~NoTimestamp(listing[i])) =>
                       join(ConversationsDir, listing[i]) \in FilesOf(visited)
              /\ \A i, j \in 1..Len(visited) :
                    (i < j /\ SearchConvDigits(visited[i]).ok /\ SearchConvDigits(visited[j]).ok) =>
                       TimestampKey(visited[i]) <= TimestampKey(visited[j])

(***************************************************************************)
(* The frame of PersonalityManager.apply_personality_to_template.          *)
(***************************************************************************)
\* A step that is a call of the manager's apply_personality_to_template.
ApplyingManager == Applying /\ called' = "apply_personality_to_template"

\* The prompt begins with the old prompt.
BeginsWith(prompt, old) ==
    Len(prompt) >= Len(old) /\ SubSeq(prompt, 1, Len(old)) = old

TemplateFileOf(structure) ==
    TemplateFile(TemplateName(structure),
                 save_template(RecreatorTemplate(structure, personality)))

\* C30: the template file is written before the engine is invoked.  At
\* every engine run the file of the name given with --template is in the
\* template directory and holds exactly the projected configs of the record
\* of that run (modified under a personality), whatever an earlier record of
\* the same scenario and timestamp has written under that name.
C30_TemplateWrittenBeforeEngine ==
    [][ Len(calls') > Len(calls) =>
          /\ LastRun.call.template = TemplateName(result')
          /\ LastRun.call.file = {TemplateFileOf(result')}
          /\ TemplateFileOf(result') \in templates'
      ]_vars

\* C30 happens: under a personality two records of one scenario and
\* timestamp were run under the same template name; the engine found a
\* different file each time, the second time that of the second record.
C30_Witness ==
    /\ personality # ""
    /\ result # None
    /\ \E k, l \in 1..Len(calls) :
          /\ k < l
          /\ l = Len(calls)
          /\ calls[l].record = filepath
          /\ calls[k].record # calls[l].record
          /\ calls[k].call.template = calls[l].call.template
          /\ calls[k].call.file # calls[l].call.file
          /\ calls[k].call.file # {}
          /\ calls[l].call.file = {TemplateFileOf(result)}

====
